---------------------------- MODULE Spec2Model ----------------------------
(***************************************************************************)
(* A model of the Polymarket position scraper (app/api/scrape/route.ts).   *)
(*                                                                         *)
(* JavaScript strings are modelled as sequences of one-character strings,  *)
(* so that includes/split/replace/toLowerCase/regex matching are computed  *)
(* character by character, as the code computes them.                      *)
(*                                                                         *)
(* Specifications:                                                         *)
(*   Spec           the GET handler, one request from start to response    *)
(*   SpecNormalize  the DedupKey normalisation applied to bounded strings  *)
(*   SpecDedup      the deduplication applied to bounded record sequences  *)
(*   SpecOutcome    the outcome calculation applied to bounded inputs      *)
(*   SpecSelect     the choice of the anchors the extraction processes     *)
(*   SpecLocate     the resolution of an anchor's container                *)
(*   SpecField      the extraction of one record from anchor and container *)
(*   SpecScroll     the scroll script's loop, one iteration per step       *)
(***************************************************************************)
EXTENDS Integers, Sequences, FiniteSets, TLC

VARIABLES
    \* ---- GET handler (Spec) ----
    pc,             \* position of the handler in its code
    profileUrl,     \* the profileUrl query parameter (NullParam when absent)
    browser,        \* "none" (variable unset), "open", "closed"
    navLog,         \* page.goto calls made so far, in order
    pageUrl,        \* page.url() sampled after navigation (empty before)
    scrolled,       \* the scroll script ran to completion
    extracted,      \* the extraction script ran to completion
    results,        \* the extraction script's results array (before dedup)
    positions,      \* the value page.evaluate returned (uniqueResults)
    error,          \* message of the error thrown to the outer catch ("" when none)
    responses,      \* the responses the handler returned, in order
    budgetElapsed,  \* maxDuration seconds have passed since the request
    \* ---- the page of the client (SpecClient), page.tsx ----
    profileUrls,    \* the texts of the three input slots
    mergedPositions,\* the positions state
    loading,        \* the loading state
    loadingStatus,  \* index -> {loading, error}, the indices from 1
    batchError,     \* the error state
    isLoadingRef,   \* isLoadingRef.current
    promises,       \* the calls of fetchSingleProfile of the batch, by index
    autoRefresh,    \* the autoRefresh state
    timeUntilRefresh, \* the countdown, in seconds
    countdownOn,    \* countdownIntervalRef holds a running interval
    inFlight,       \* history: batches started and not yet finished
    completed,      \* history: a batch has finished
    startedBy,      \* history: what called fetchPositions last
    calls,          \* history: parity of the calls of fetchPositions
    \* ---- DedupKey normalisation (SpecNormalize) ----
    u,              \* a base URL
    normPc,         \* "in" before, "out" after the normalisation
    normU,          \* normalize(u)
    normQuery,      \* normalize(u + "?q=1")
    normSlash,      \* normalize(u + "/")
    \* ---- deduplication (SpecDedup) ----
    dedupIn,        \* a results array
    once,           \* the deduplication of dedupIn
    twice,          \* the deduplication of once
    dedupPc,        \* "in", "once", "twice": how often it was applied
    \* ---- outcome calculation (SpecOutcome) ----
    avgPriceValue,  \* the priced quantity text
    value,          \* the monetary value text
    outcome,        \* the computed outcome text
    calcPc,         \* "in" before, "out" after the calculation
    \* ---- anchor selection (SpecSelect) ----
    anchors,        \* the a elements of the document, in document order
    marketLinks,    \* the indices (into anchors) of the anchors processed
    selPc,          \* "in" before, "out" after the selection
    \* ---- container resolution (SpecLocate) ----
    ancestors,      \* the anchor's ancestors, the parent first
    container,      \* the ancestor resolved (index into ancestors, 0 for null)
    strategy,       \* the strategy that set container (0 for none)
    depth,          \* the walk's counter when it ended (0 when it did not run)
    locPc,          \* "in" before, "out" after the resolution
    \* ---- record extraction (SpecField) ----
    link,           \* the anchor
    fieldContainer, \* its container
    pushed,         \* the records pushed to results for the anchor (none or one)
    trace,          \* the priced quantity and the value after each strategy
    fieldPc,        \* "in" before, "out" after the extraction
    \* ---- scroll script (SpecScroll) ----
    lastHeight,     \* document.body.scrollHeight at the previous sample
    lastLinkCount,  \* the count of market links at the previous sample
    scrollCount,    \* iterations of the loop made
    stableCount,    \* consecutive samples without a change
    samples,        \* history: the sample taken last, if any, as <<sample>>
    stableRun,      \* history: the latest samples equal to the one before
    scrollPc,       \* "loop", "settle" (after the loop), "finished"
    \* ---- the pass over the anchors (SpecEach) ----
    eachLinks,      \* marketLinks: what the body does for each anchor
    eachIndex,      \* callbacks of forEach that have run
    eachResults,    \* the results array
    eachErrors,     \* indices of the anchors the catch of line 475 logged
    eachReturned,   \* the array the script returns
    eachPc          \* "loop" during forEach, "returned" after the script

handlerVars == <<pc, profileUrl, browser, navLog, pageUrl, scrolled,
                 extracted, results, positions, error, responses>>
normVars == <<u, normPc, normU, normQuery, normSlash>>
dedupVars == <<dedupIn, once, twice, dedupPc>>
outcomeVars == <<avgPriceValue, value, outcome, calcPc>>
selVars == <<anchors, marketLinks, selPc>>
locVars == <<ancestors, container, strategy, depth, locPc>>
fieldVars == <<link, fieldContainer, pushed, trace, fieldPc>>
scrollVars == <<lastHeight, lastLinkCount, scrollCount, stableCount, samples,
                stableRun, scrollPc>>
eachVars == <<eachLinks, eachIndex, eachResults, eachErrors, eachReturned,
              eachPc>>
\* the parts of the scripts that run in the page
pageVars == <<selVars, locVars, fieldVars, scrollVars>>
\* what the GET handler leaves alone
\* the state of the page of the client, and the history kept with it
clientState == <<profileUrls, mergedPositions, loading, loadingStatus,
                 batchError, isLoadingRef, promises, autoRefresh,
                 timeUntilRefresh, countdownOn>>
clientVars == <<clientState, inFlight, completed, startedBy, calls>>
pureVars == <<normVars, dedupVars, outcomeVars, pageVars, eachVars,
              budgetElapsed, clientVars>>
\* what the pure functions and the parts of the scripts leave alone
outerVars == <<handlerVars, eachVars, budgetElapsed, clientVars>>
vars == <<handlerVars, pureVars>>

(***************************************************************************)
(* Bounds of the model.                                                    *)
(***************************************************************************)
MaxResults == 3     \* records the extraction script collects at most
MaxUrlLen == 4      \* length of the base URLs drawn for the normalisation
MaxPriceLen == 2    \* characters of the number in a drawn priced quantity
MaxValueLen == 3    \* characters of the number in a drawn monetary value
MaxKids == 3        \* child elements of a drawn container
MaxAncestors == 3   \* ancestors of an anchor, with tags and markers drawn
MaxPlainAncestors == 6  \* ancestors of an anchor, all of them plain div
MaxAnchors == 6     \* anchors of a drawn document
MaxHeight == 1      \* the scroll heights sampled are 0..MaxHeight
MaxLinks == 1       \* the link counts sampled are 0..MaxLinks

(***************************************************************************)
(* Characters and strings.                                                 *)
(***************************************************************************)
UpperAlpha == <<"A","B","C","D","E","F","G","H","I","J","K","L","M",
                "N","O","P","Q","R","S","T","U","V","W","X","Y","Z">>
LowerAlpha == <<"a","b","c","d","e","f","g","h","i","j","k","l","m",
                "n","o","p","q","r","s","t","u","v","w","x","y","z">>
DigitChars == <<"0","1","2","3","4","5","6","7","8","9">>

Range(s) == {s[i] : i \in DOMAIN s}
UpperChars == Range(UpperAlpha)
LowerChars == Range(LowerAlpha)
IsDigit(c) == c \in Range(DigitChars)
IsAlpha(c) == c \in UpperChars \cup LowerChars

\* String.prototype.toLowerCase, one character
LowerChar(c) ==
    IF c \in UpperChars
    THEN LowerAlpha[CHOOSE i \in DOMAIN UpperAlpha : UpperAlpha[i] = c]
    ELSE c

ToLowerCase(s) == [i \in DOMAIN s |-> LowerChar(s[i])]

\* s.startsWith(p) from position i: p occurs in s at i
OccursAt(s, p, i) ==
    /\ i >= 1
    /\ i + Len(p) - 1 <= Len(s)
    /\ \A k \in 1..Len(p) : s[i + k - 1] = p[k]

\* String.prototype.includes
Includes(s, p) == \E i \in 1..(Len(s) + 1) : OccursAt(s, p, i)

\* s.split(c)[0]: the part of s before the first c (all of s without one)
SplitFirst(s, c) ==
    IF \E i \in DOMAIN s : s[i] = c
    THEN SubSeq(s, 1, (CHOOSE i \in DOMAIN s :
                          s[i] = c /\ \A j \in 1..(i - 1) : s[j] # c) - 1)
    ELSE s

\* s.replace(/\/$/, ''): one trailing slash removed
StripTrailingSlash(s) ==
    IF Len(s) > 0 /\ s[Len(s)] = "/" THEN SubSeq(s, 1, Len(s) - 1) ELSE s

\* the number of characters of s from position i on that are in C
RunLen(s, i, C) ==
    IF i > Len(s) THEN 0
    ELSE LET stops == {j \in i..(Len(s) + 1) : j = Len(s) + 1 \/ s[j] \notin C}
         IN  (CHOOSE j \in stops : \A k \in stops : j <= k) - i

\* All sequences over S of length at most n
SeqsUpTo(S, n) == UNION {[1..k -> S] : k \in 0..n}

(***************************************************************************)
(* DedupKey: route.ts line 486.                                            *)
(***************************************************************************)
\* a normalisation that forgets the trailing slash
normalizedUrl_KeepsSlash(url) ==
    ToLowerCase(SplitFirst(SplitFirst(url, "?"), "#"))

normalizedUrl(url) ==
    StripTrailingSlash(ToLowerCase(SplitFirst(SplitFirst(url, "?"), "#")))

(***************************************************************************)
(* Deduplication: route.ts lines 481-493.                                  *)
(***************************************************************************)
RECURSIVE DedupLoop(_, _, _, _)
\* the for loop over results: i is the index of pos, seenUrls and
\* uniqueResults are the loop's two accumulators
DedupLoop(res, i, seenUrls, acc) ==
    IF i > Len(res) THEN acc
    ELSE LET key == normalizedUrl(res[i].marketUrl)
         IN  IF key \notin seenUrls
             THEN DedupLoop(res, i + 1, seenUrls \cup {key}, Append(acc, res[i]))
             ELSE DedupLoop(res, i + 1, seenUrls, acc)

\* a deduplication that keeps the last record of each key
uniqueResults_KeepsLast(res) ==
    LET keep == {i \in DOMAIN res : \A j \in (i + 1)..Len(res) :
                    normalizedUrl(res[j].marketUrl) # normalizedUrl(res[i].marketUrl)}
        F[i \in 0..Len(res)] ==
            IF i = 0 THEN <<>>
            ELSE IF i \in keep THEN Append(F[i - 1], res[i]) ELSE F[i - 1]
    IN  F[Len(res)]

\* a deduplication that removes a duplicate from the array it is iterating
\* over, and so steps over the element that follows it
RECURSIVE SpliceLoop(_, _, _)
SpliceLoop(arr, i, seenUrls) ==
    IF i > Len(arr) THEN arr
    ELSE LET key == normalizedUrl(arr[i].marketUrl)
         IN  IF key \in seenUrls
             THEN SpliceLoop(SubSeq(arr, 1, i - 1) \o SubSeq(arr, i + 1, Len(arr)),
                             i + 1, seenUrls)
             ELSE SpliceLoop(arr, i + 1, seenUrls \cup {key})

uniqueResults_SpliceInLoop(res) == SpliceLoop(res, 1, {})

uniqueResults(res) == DedupLoop(res, 1, {}, <<>>)

(***************************************************************************)
(* Request validation: route.ts lines 16-34.                               *)
(***************************************************************************)
NullParam == [isNull |-> TRUE, str |-> <<>>]
Param(s) == [isNull |-> FALSE, str |-> s]

\* !profileUrl: null or the empty string
Falsy(p) == p.isNull \/ p.str = <<>>

SchemeChar(c) == IsAlpha(c) \/ IsDigit(c) \/ c \in {"+", "-", "."}
SpecialSchemes == {<<"h","t","t","p">>, <<"h","t","t","p","s">>}

\* the position of the first character of s, from position i on, that is
\* in C (Len(s) + 1 without one)
FirstIn(s, i, C) == i + RunLen(s, i, (Range(s) \cup C) \ C)

\* new URL(s) does not throw: s has a scheme, and a special scheme has a
\* non-empty host (what follows the slashes, up to the first "/", "?" or
\* "#") without spaces
ParsesAsURL(s) ==
    LET colon == FirstIn(s, 1, {":"})
        hostFrom == colon + 1 + RunLen(s, colon + 1, {"/", "\\"})
        hostTo == FirstIn(s, hostFrom, {"/", "?", "#"}) - 1
    IN  /\ colon <= Len(s)
        /\ colon > 1
        /\ IsAlpha(s[1])
        /\ \A i \in 1..(colon - 1) : SchemeChar(s[i])
        /\ ToLowerCase(SubSeq(s, 1, colon - 1)) \in SpecialSchemes =>
              /\ hostFrom <= hostTo
              /\ \A i \in hostFrom..hostTo : s[i] # " "

(***************************************************************************)
(* Numbers.  A JavaScript number is modelled exactly where the model's     *)
(* integers can hold it: a decimal n / 10^s ("fin"), a power of ten 10^n   *)
(* of at least 10^21 ("pow10"), Infinity ("inf") or NaN ("nan").  A        *)
(* literal outside these forms has no arm below and stops the check.       *)
(***************************************************************************)
Cent == "¢"
Digits == Range(DigitChars)

\* the most integer digits a finite double has (Number.MAX_VALUE < 10^309)
MaxFiniteDigits == 309
\* the most digits of a decimal the model computes with exactly
MaxExactDigits == 9
\* toFixed gives exponential notation from 10^21 on
ExponentialFrom == 21

NaN == [kind |-> "nan", n |-> 0, s |-> 0]
Infinity == [kind |-> "inf", n |-> 0, s |-> 0]
Fin(n, s) == [kind |-> "fin", n |-> n, s |-> s]
Pow10Num(e) == [kind |-> "pow10", n |-> e, s |-> 0]

RECURSIVE Pow10(_)
Pow10(k) == IF k = 0 THEN 1 ELSE 10 * Pow10(k - 1)

DigitVal(c) == (CHOOSE i \in DOMAIN DigitChars : DigitChars[i] = c) - 1

RECURSIVE ToNat(_)
ToNat(ds) ==
    IF ds = <<>> THEN 0
    ELSE 10 * ToNat(SubSeq(ds, 1, Len(ds) - 1)) + DigitVal(ds[Len(ds)])

RECURSIVE DecStr(_)
DecStr(n) ==
    IF n < 10 THEN <<DigitChars[n + 1]>>
    ELSE Append(DecStr(n \div 10), DigitChars[(n % 10) + 1])

StripLeadingZeros(ds) == SubSeq(ds, RunLen(ds, 1, {"0"}) + 1, Len(ds))

\* s.match(/([C]+\.?\d*)/): the leftmost match, greedy
NumberMatch(s, C) ==
    IF \E i \in DOMAIN s : s[i] \in C
    THEN LET i == CHOOSE k \in DOMAIN s :
                     s[k] \in C /\ \A j \in 1..(k - 1) : s[j] \notin C
             dot == i + RunLen(s, i, C)
             frac == IF dot <= Len(s) /\ s[dot] = "." THEN dot + 1 ELSE dot
         IN  [found |-> TRUE,
              text |-> SubSeq(s, i, frac + RunLen(s, frac, Digits) - 1)]
    ELSE [found |-> FALSE, text |-> <<>>]

\* parseFloat of a string of digits and dots
parseFloat(str) ==
    LET ip == RunLen(str, 1, Digits)
        fp == IF ip + 1 <= Len(str) /\ str[ip + 1] = "."
              THEN RunLen(str, ip + 2, Digits) ELSE 0
        int == StripLeadingZeros(SubSeq(str, 1, ip))
        frac == SubSeq(str, ip + 2, ip + 1 + fp)
    IN  IF ip = 0 /\ fp = 0 THEN NaN
        ELSE CASE Len(int) > MaxFiniteDigits -> Infinity
               [] Len(int) + fp <= MaxExactDigits ->
                     Fin(ToNat(int \o frac), fp)
               [] /\ Len(int) > ExponentialFrom
                  /\ Len(int) <= MaxFiniteDigits
                  /\ int[1] = "1"
                  /\ \A i \in 2..Len(int) : int[i] = "0"
                  /\ \A i \in DOMAIN frac : frac[i] = "0" ->
                     Pow10Num(Len(int) - 1)

\* x > 0
IsPositive(x) == x.kind \in {"inf", "pow10"} \/ (x.kind = "fin" /\ x.n > 0)

\* h hundredths written with two decimals
FixedString(h) ==
    DecStr(h \div 100) \o <<".", DigitChars[((h \div 10) % 10) + 1],
                            DigitChars[(h % 10) + 1]>>

\* (v / (p / 100)).toFixed(2) for decimals v, p with p > 0: the quotient in
\* hundredths is num / den; toFixed takes the nearest hundredth of the
\* double, which for a quotient exactly half way is the one below or above
FixedQuotient(v, p) ==
    LET a == 4 + p.s - v.s
        num == IF a >= 0 THEN v.n * Pow10(a) ELSE v.n
        den == IF a >= 0 THEN p.n ELSE p.n * Pow10(0 - a)
        h == num \div den
        r == num % den
    IN  IF 2 * r < den THEN {FixedString(h)}
        ELSE IF 2 * r > den THEN {FixedString(h + 1)}
        ELSE {FixedString(h), FixedString(h + 1)}

\* (valueNum / priceInDollars).toFixed(2), priceInDollars = priceInCents / 100
toFixed2(valueNum, priceInCents) ==
    CASE valueNum.kind = "fin" /\ priceInCents.kind = "fin" ->
            FixedQuotient(valueNum, priceInCents)
      [] valueNum.kind = "inf" /\ priceInCents.kind = "inf" ->
            {<<"N","a","N">>}
      [] valueNum.kind = "inf" /\ priceInCents.kind # "inf" ->
            {<<"I","n","f","i","n","i","t","y">>}
      [] valueNum.kind # "inf" /\ priceInCents.kind = "inf" ->
            {<<"0",".","0","0">>}
      [] /\ valueNum.kind = "pow10"
         /\ priceInCents.kind = "fin"
         /\ priceInCents.n = 100 * Pow10(priceInCents.s) ->
            {<<"1","e","+">> \o DecStr(valueNum.n)}

RemoveCommas(s) == SelectSeq(s, LAMBDA c : c # ",")

(***************************************************************************)
(* The outcome calculation: route.ts lines 426-450.  The result is the set *)
(* of strings the calculation can give (one, except for a quotient half    *)
(* way between two hundredths).                                            *)
(***************************************************************************)
Outcomes(avg, val) ==
    IF avg = <<>> \/ val = <<>> THEN {<<>>}
    ELSE LET priceMatch == NumberMatch(avg, Digits)
             priceInCents == IF priceMatch.found
                             THEN parseFloat(priceMatch.text) ELSE Fin(0, 0)
             valueMatch == NumberMatch(val, Digits \cup {","})
             valueStr == IF valueMatch.found
                         THEN RemoveCommas(valueMatch.text) ELSE <<"0">>
             valueNum == parseFloat(valueStr)
         IN  IF /\ IsPositive(priceInCents)
                /\ valueNum.kind # "nan"
                /\ priceInCents.kind # "nan"
             THEN toFixed2(valueNum, priceInCents)
             ELSE {<<>>}

(***************************************************************************)
(* The inputs of a request: the URLs asked for, the URLs the page may end  *)
(* on, and the records the extraction script may collect.                  *)
(***************************************************************************)
Https == <<"h","t","t","p","s",":","/","/">>
PolymarketCom == <<"p","o","l","y","m","a","r","k","e","t",".","c","o","m">>
EvilIo == <<"e","v","i","l",".","i","o">>

\* https://polymarket.com/@u?tab=positions
ProfileOk == Https \o PolymarketCom \o
             <<"/","@","u","?","t","a","b","=","p","o","s","i","t","i","o","n","s">>
\* https://polymarket.com/@u
ProfileNoTab == Https \o PolymarketCom \o <<"/","@","u">>
\* https://evil.io/x
ForeignUrl == Https \o EvilIo \o <<"/","x">>
\* https://evil.io/?polymarket.com
ForeignWithName == Https \o EvilIo \o <<"/","?">> \o PolymarketCom
\* https://polymarket.com.evil.io/x
ForeignLookalike == Https \o PolymarketCom \o <<".">> \o EvilIo \o <<"/","x">>
\* "not a url" has no scheme; "https://" has no host
NotAUrl == <<"n","o","t"," ","a"," ","u","r","l">>

ProfileUrls ==
    {NullParam, Param(<<>>), Param(NotAUrl), Param(Https), Param(ProfileOk),
     Param(ProfileNoTab), Param(ForeignUrl), Param(ForeignWithName)}

\* page.url() after a navigation: the URL asked for, or where it redirected
PageUrlsFor(url) == {url, ProfileOk, ForeignUrl, ForeignLookalike}

\* https://polymarket.com/event/
EventBase == Https \o PolymarketCom \o <<"/","e","v","e","n","t","/">>

Position(name, url, out, avg, val) ==
    [marketName |-> name, marketUrl |-> url, outcome |-> out,
     avgPrice |-> avg, value |-> val]

\* a record as pushed at route.ts lines 452-473, its outcome computed from
\* the two texts
PositionsOf(name, url, avg, val) ==
    {Position(name, url, out, avg, val) : out \in Outcomes(avg, val)}

\* The records the extraction script may push
PositionPool ==
    PositionsOf("Will A?", EventBase \o <<"a">>, <<"5","0",Cent>>, <<"$","1","0","0">>)
    \cup PositionsOf("A again", EventBase \o <<"a","?","q","=","1">>, <<>>, <<>>)
    \cup PositionsOf("A slash", EventBase \o <<"a","/">>, <<>>, <<"$","5">>)
    \cup PositionsOf("A upper", EventBase \o <<"A">>, <<"0",Cent>>, <<"$","5">>)
    \cup PositionsOf("A frag", EventBase \o <<"a","#","f">>, <<"5",Cent>>, <<>>)
    \cup PositionsOf("Unknown Market", EventBase \o <<"b">>, <<>>, <<>>)

(***************************************************************************)
(* The GET handler: route.ts lines 15-534.  One action per await point.    *)
(***************************************************************************)
NavTimeout == 120000
SettleDelay == 5000

Goto(waitUntil, ok, settle) ==
    [waitUntil |-> waitUntil, timeout |-> NavTimeout, ok |-> ok, settle |-> settle]

Response(status, err, msg, hasPositions, pos, count) ==
    [status |-> status, error |-> err, message |-> msg,
     hasPositions |-> hasPositions, positions |-> pos, count |-> count]

\* the parts of the state a specification does not use stay as they are here
HandlerIdle ==
    /\ pc = "idle" /\ profileUrl = NullParam /\ browser = "none"
    /\ navLog = <<>> /\ pageUrl = <<>> /\ scrolled = FALSE
    /\ extracted = FALSE /\ results = <<>> /\ positions = <<>>
    /\ error = "" /\ responses = <<>>

NormIdle ==
    /\ u = <<>> /\ normPc = "idle" /\ normU = <<>>
    /\ normQuery = <<>> /\ normSlash = <<>>

DedupIdle ==
    /\ dedupIn = <<>> /\ once = <<>> /\ twice = <<>> /\ dedupPc = "idle"

OutcomeIdle ==
    /\ avgPriceValue = <<>> /\ value = <<>> /\ outcome = <<>>
    /\ calcPc = "idle"

SelectIdle ==
    /\ anchors = <<>> /\ marketLinks = <<>> /\ selPc = "idle"

LocateIdle ==
    /\ ancestors = <<>> /\ container = 0 /\ strategy = 0 /\ depth = 0
    /\ locPc = "idle"

FieldIdle ==
    /\ link = <<>> /\ fieldContainer = <<>> /\ pushed = <<>>
    /\ trace = <<>> /\ fieldPc = "idle"

ScrollIdle ==
    /\ lastHeight = 0 /\ lastLinkCount = 0 /\ scrollCount = 0
    /\ stableCount = 0 /\ samples = <<>> /\ stableRun = 0
    /\ scrollPc = "idle"

EachIdle ==
    /\ eachLinks = <<>> /\ eachIndex = 0 /\ eachResults = <<>>
    /\ eachErrors = {} /\ eachReturned = <<>> /\ eachPc = "idle"

ClientIdle ==
    /\ profileUrls = <<>> /\ mergedPositions = <<>> /\ loading = FALSE
    /\ loadingStatus = <<>> /\ batchError = "" /\ isLoadingRef = FALSE
    /\ promises = <<>> /\ autoRefresh = FALSE /\ timeUntilRefresh = 0
    /\ countdownOn = FALSE /\ inFlight = 0 /\ completed = FALSE
    /\ startedBy = "none" /\ calls = 0

OuterIdle == HandlerIdle /\ EachIdle /\ ClientIdle /\ budgetElapsed = FALSE

Init ==
    /\ EachIdle
    /\ ClientIdle
    /\ budgetElapsed = FALSE
    /\ pc = "start"
    /\ profileUrl \in ProfileUrls
    /\ browser = "none"
    /\ navLog = <<>>
    /\ pageUrl = <<>>
    /\ scrolled = FALSE
    /\ extracted = FALSE
    /\ results = <<>>
    /\ positions = <<>>
    /\ error = ""
    /\ responses = <<>>
    /\ NormIdle
    /\ DedupIdle
    /\ OutcomeIdle
    /\ SelectIdle
    /\ LocateIdle
    /\ FieldIdle
    /\ ScrollIdle

\* throw e inside the outer try: control passes to the catch at line 514
Throw(msg) ==
    /\ pc' = "catch"
    /\ error' = msg

\* a validation that forgets the format check
Validate_NoFormatCheck ==
    /\ pc = "start"
    /\ \/ /\ Falsy(profileUrl)
          /\ responses' = Append(responses,
                Response(400, "profileUrl parameter is required", "", FALSE, <<>>, 0))
          /\ pc' = "done"
       \/ /\ ~Falsy(profileUrl)
          /\ pc' = "launch"
          /\ UNCHANGED responses
    /\ UNCHANGED <<profileUrl, browser, navLog, pageUrl, scrolled, extracted,
                   results, positions, error, pureVars>>

\* lines 16-34: the two validation exits, or on to the try block
Validate ==
    /\ pc = "start"
    /\ \/ /\ Falsy(profileUrl)
          /\ responses' = Append(responses,
                Response(400, "profileUrl parameter is required", "", FALSE, <<>>, 0))
          /\ pc' = "done"
       \/ /\ ~Falsy(profileUrl)
          /\ ~ParsesAsURL(profileUrl.str)
          /\ responses' = Append(responses,
                Response(400, "Invalid URL format", "", FALSE, <<>>, 0))
          /\ pc' = "done"
       \/ /\ ~Falsy(profileUrl)
          /\ ParsesAsURL(profileUrl.str)
          /\ pc' = "launch"
          /\ UNCHANGED responses
    /\ UNCHANGED <<profileUrl, browser, navLog, pageUrl, scrolled, extracted,
                   results, positions, error, pureVars>>

\* lines 39-48: puppeteer.launch resolves (browser assigned) or rejects
Launch ==
    /\ pc = "launch"
    /\ \/ /\ browser' = "open"
          /\ pc' = "newPage"
          /\ UNCHANGED error
       \/ /\ Throw("Failed to launch the browser process")
          /\ UNCHANGED browser
    /\ UNCHANGED <<profileUrl, navLog, pageUrl, scrolled, extracted, results,
                   positions, responses, pureVars>>

\* lines 50-58: newPage, setViewport, setUserAgent
NewPage ==
    /\ pc = "newPage"
    /\ \/ pc' = "nav1" /\ UNCHANGED error
       \/ Throw("Protocol error")
    /\ UNCHANGED <<profileUrl, browser, navLog, pageUrl, scrolled, extracted,
                   results, positions, responses, pureVars>>

\* a first attempt whose failure goes straight to the last resort
GotoTier1_SkipsTier2 ==
    /\ pc = "nav1"
    /\ \E ok \in BOOLEAN :
          /\ navLog' = Append(navLog, Goto("domcontentloaded", ok, 0))
          /\ pc' = IF ok THEN "check" ELSE "nav3"
    /\ UNCHANGED <<profileUrl, browser, pageUrl, scrolled, extracted, results,
                   positions, error, responses, pureVars>>

\* lines 61-66: first attempt, waitUntil 'domcontentloaded'
GotoTier1 ==
    /\ pc = "nav1"
    /\ \E ok \in BOOLEAN :
          /\ navLog' = Append(navLog, Goto("domcontentloaded", ok, 0))
          /\ pc' = IF ok THEN "check" ELSE "nav2"
    /\ UNCHANGED <<profileUrl, browser, pageUrl, scrolled, extracted, results,
                   positions, error, responses, pureVars>>

\* lines 68-73: retry, waitUntil 'networkidle'
GotoTier2 ==
    /\ pc = "nav2"
    /\ \E ok \in BOOLEAN :
          /\ navLog' = Append(navLog, Goto("networkidle", ok, 0))
          /\ pc' = IF ok THEN "check" ELSE "nav3"
    /\ UNCHANGED <<profileUrl, browser, pageUrl, scrolled, extracted, results,
                   positions, error, responses, pureVars>>

\* lines 74-77: last resort, no waitUntil, then the 5 s settle delay; a
\* failure here is not caught by the inner try and reaches the outer catch
GotoTier3 ==
    /\ pc = "nav3"
    /\ \/ /\ navLog' = Append(navLog, Goto("", TRUE, SettleDelay))
          /\ pc' = "check"
          /\ UNCHANGED error
       \/ /\ navLog' = Append(navLog, Goto("", FALSE, 0))
          /\ Throw("Navigation timeout of 120000 ms exceeded")
    /\ UNCHANGED <<profileUrl, browser, pageUrl, scrolled, extracted, results,
                   positions, responses, pureVars>>

\* line 88: pageUrl.includes('polymarket.com')
IsPolymarketUrl(url) == Includes(url, PolymarketCom)

\* lines 81-90: page.title(), page.url() and the check of the URL
CheckPage ==
    /\ pc = "check"
    /\ \/ /\ Throw("Execution context was destroyed")
          /\ UNCHANGED pageUrl
       \/ \E url \in PageUrlsFor(profileUrl.str) :
             /\ pageUrl' = url
             /\ IF ~IsPolymarketUrl(url)
                THEN Throw("Invalid page: not a Polymarket URL")
                ELSE pc' = "waitLinks" /\ UNCHANGED error
    /\ UNCHANGED <<profileUrl, browser, navLog, scrolled, extracted, results,
                   positions, responses, pureVars>>

\* lines 93-116: up to 5 polls for market links, then waitForSelector whose
\* timeout is swallowed; a page.evaluate may reject
WaitForLinks ==
    /\ pc = "waitLinks"
    /\ \/ pc' = "scroll" /\ UNCHANGED error
       \/ Throw("Execution context was destroyed")
    /\ UNCHANGED <<profileUrl, browser, navLog, pageUrl, scrolled, extracted,
                   results, positions, responses, pureVars>>

\* lines 119-164: the scroll script, run in the page
Scroll ==
    /\ pc = "scroll"
    /\ \/ /\ scrolled' = TRUE
          /\ pc' = "extract"
          /\ UNCHANGED error
       \/ /\ Throw("Execution context was destroyed")
          /\ UNCHANGED scrolled
    /\ UNCHANGED <<profileUrl, browser, navLog, pageUrl, extracted, results,
                   positions, responses, pureVars>>

\* lines 167-494: the link count, then the extraction script, which returns
\* its results array deduplicated
Extract ==
    /\ pc = "extract"
    /\ \/ \E res \in SeqsUpTo(PositionPool, MaxResults) :
             /\ results' = res
             /\ positions' = uniqueResults(res)
             /\ extracted' = TRUE
             /\ pc' = "close"
             /\ UNCHANGED error
       \/ /\ Throw("Execution context was destroyed")
          /\ UNCHANGED <<results, positions, extracted>>
    /\ UNCHANGED <<profileUrl, browser, navLog, pageUrl, scrolled, responses,
                   pureVars>>

\* line 496: browser.close() on the success path; it ends the browser
\* process whether it resolves or rejects
CloseBrowser ==
    /\ pc = "close"
    /\ browser' = "closed"
    /\ \/ pc' = "respond" /\ UNCHANGED error
       \/ Throw("Protocol error (Browser.close)")
    /\ UNCHANGED <<profileUrl, navLog, pageUrl, scrolled, extracted, results,
                   positions, responses, pureVars>>

EmptyMessage == "The page may not have loaded correctly or the profile has no positions. Make sure the URL includes ?tab=positions"

\* a response that counts the records before deduplication
Respond_CountsAllResults ==
    /\ pc = "respond"
    /\ responses' = Append(responses,
          IF Len(results) = 0
          THEN Response(200, "No positions found", EmptyMessage, TRUE, <<>>, 0)
          ELSE Response(200, "", "", TRUE, positions, Len(results)))
    /\ pc' = "done"
    /\ UNCHANGED <<profileUrl, browser, navLog, pageUrl, scrolled, extracted,
                   results, positions, error, pureVars>>

\* lines 499-513: the empty result, or the positions and their count
Respond ==
    /\ pc = "respond"
    /\ responses' = Append(responses,
          IF Len(positions) = 0
          THEN Response(200, "No positions found", EmptyMessage, TRUE, <<>>, 0)
          ELSE Response(200, "", "", TRUE, positions, Len(positions)))
    /\ pc' = "done"
    /\ UNCHANGED <<profileUrl, browser, navLog, pageUrl, scrolled, extracted,
                   results, positions, error, pureVars>>

\* a catch block that does not close the browser
Catch_LeavesBrowserOpen ==
    /\ pc = "catch"
    /\ responses' = Append(responses,
          Response(500, "Scraping failed",
                   IF error # "" THEN error ELSE "Unknown error occurred",
                   FALSE, <<>>, 0))
    /\ pc' = "done"
    /\ UNCHANGED <<profileUrl, browser, navLog, pageUrl, scrolled, extracted,
                   results, positions, error, pureVars>>

\* lines 514-533: close the browser if it was assigned (a failure of close
\* is swallowed), then the 500 response
Catch ==
    /\ pc = "catch"
    /\ browser' = IF browser # "none" THEN "closed" ELSE browser
    /\ responses' = Append(responses,
          Response(500, "Scraping failed",
                   IF error # "" THEN error ELSE "Unknown error occurred",
                   FALSE, <<>>, 0))
    /\ pc' = "done"
    /\ UNCHANGED <<profileUrl, navLog, pageUrl, scrolled, extracted, results,
                   positions, error, pureVars>>

Next ==
    \/ Validate
    \/ Launch
    \/ NewPage
    \/ GotoTier1
    \/ GotoTier2
    \/ GotoTier3
    \/ CheckPage
    \/ WaitForLinks
    \/ Scroll
    \/ Extract
    \/ CloseBrowser
    \/ Respond
    \/ Catch

Spec == Init /\ [][Next]_vars

\* line 13: the duration the route declares for an invocation, in seconds
maxDuration == 300

\* maxDuration seconds have passed while the handler is at work.  Nothing
\* in the handler measures the time of an invocation: its timeouts are
\* those of the single navigations (lines 57-84), and no step reads a clock
BudgetElapses ==
    /\ pc \notin {"idle", "start", "done"}
    /\ ~budgetElapsed
    /\ budgetElapsed' = TRUE
    /\ UNCHANGED <<handlerVars, normVars, dedupVars, outcomeVars, pageVars,
                   eachVars, clientVars>>

NextBudget == Next \/ BudgetElapses

\* the handler with the passing of its declared duration
SpecBudget == Init /\ [][NextBudget]_vars

(***************************************************************************)
(* SpecNormalize: the DedupKey of a base URL, of the URL with a query      *)
(* string and of the URL with a trailing slash.                            *)
(***************************************************************************)
UrlChars == {"a", "B", "/", "?", "#"}
QuerySuffix == <<"?","q","=","1">>

InitNormalize ==
    /\ OuterIdle
    /\ DedupIdle
    /\ OutcomeIdle
    /\ SelectIdle /\ LocateIdle /\ FieldIdle /\ ScrollIdle
    /\ u \in SeqsUpTo(UrlChars, MaxUrlLen)
    /\ normPc = "in"
    /\ normU = <<>> /\ normQuery = <<>> /\ normSlash = <<>>

Normalize ==
    /\ normPc = "in"
    /\ normU' = normalizedUrl(u)
    /\ normQuery' = normalizedUrl(u \o QuerySuffix)
    /\ normSlash' = normalizedUrl(u \o <<"/">>)
    /\ normPc' = "out"
    /\ UNCHANGED <<u, outerVars, dedupVars, outcomeVars, pageVars>>

NextNormalize == Normalize

SpecNormalize == InitNormalize /\ [][NextNormalize]_vars

(***************************************************************************)
(* SpecDedup: the deduplication applied to a results array, then to its    *)
(* own output.                                                             *)
(***************************************************************************)
InitDedup ==
    /\ OuterIdle
    /\ NormIdle
    /\ OutcomeIdle
    /\ SelectIdle /\ LocateIdle /\ FieldIdle /\ ScrollIdle
    /\ dedupIn \in SeqsUpTo(PositionPool, MaxResults)
    /\ once = <<>> /\ twice = <<>>
    /\ dedupPc = "in"

DedupOnce ==
    /\ dedupPc = "in"
    /\ once' = uniqueResults(dedupIn)
    /\ dedupPc' = "once"
    /\ UNCHANGED <<dedupIn, twice, outerVars, normVars, outcomeVars, pageVars>>

DedupTwice ==
    /\ dedupPc = "once"
    /\ twice' = uniqueResults(once)
    /\ dedupPc' = "twice"
    /\ UNCHANGED <<dedupIn, once, outerVars, normVars, outcomeVars, pageVars>>

NextDedup == DedupOnce \/ DedupTwice

SpecDedup == InitDedup /\ [][NextDedup]_vars

(***************************************************************************)
(* SpecOutcome: the outcome calculation on drawn texts.                    *)
(***************************************************************************)
PriceChars == {"0", "4", "5", "."}
ValueChars == {"0", "1", "9", ",", "."}

\* a number too long for a finite double, and 10^21
HugeDigits == 400
Huge == [i \in 1..HugeDigits |-> "9"]
TenTo21 == <<"1">> \o [i \in 1..ExponentialFrom |-> "0"]

PriceTexts ==
    {<<>>} \cup {body \o <<Cent>> : body \in SeqsUpTo(PriceChars, MaxPriceLen)}
ValueTexts ==
    {<<>>} \cup {<<"$">> \o body : body \in SeqsUpTo(ValueChars, MaxValueLen)}

OutcomeInputs ==
    (PriceTexts \X ValueTexts)
    \cup { <<<<"1", Cent>>, <<"$">> \o Huge>>,
           <<Huge \o <<Cent>>, <<"$">> \o Huge>>,
           <<Huge \o <<Cent>>, <<"$", "1">>>>,
           <<<<"1","0","0", Cent>>, <<"$">> \o TenTo21>> }

InitOutcome ==
    /\ OuterIdle
    /\ NormIdle
    /\ DedupIdle
    /\ SelectIdle /\ LocateIdle /\ FieldIdle /\ ScrollIdle
    /\ \E in \in OutcomeInputs : avgPriceValue = in[1] /\ value = in[2]
    /\ outcome = <<>>
    /\ calcPc = "in"

CalcOutcome ==
    /\ calcPc = "in"
    /\ outcome' \in Outcomes(avgPriceValue, value)
    /\ calcPc' = "out"
    /\ UNCHANGED <<avgPriceValue, value, outerVars, normVars, dedupVars, pageVars>>

NextOutcome == CalcOutcome

SpecOutcome == InitOutcome /\ [][NextOutcome]_vars


(***************************************************************************)
(* Text matching: the regular expressions of route.ts lines 252-422,       *)
(* matched as JavaScript matches them (leftmost match, greedy).            *)
(***************************************************************************)
\* \s
Whitespace == {" ", "\n", "\t"}

\* String.prototype.trim
Trim(s) ==
    LET lead == RunLen(s, 1, Whitespace)
        last == CHOOSE j \in 0..Len(s) :
                    /\ j = 0 \/ s[j] \notin Whitespace
                    /\ \A k \in (j + 1)..Len(s) : s[k] \in Whitespace
    IN  SubSeq(s, lead + 1, last)

\* String.prototype.startsWith
StartsWith(s, p) == OccursAt(s, p, 1)

\* the least of a non-empty set of positions
Least(P) == CHOOSE i \in P : \A j \in P : i <= j

\* the result of String.prototype.match: the whole match and group 1
NoMatch == [found |-> FALSE, text |-> <<>>, num |-> <<>>]
Match(text, num) == [found |-> TRUE, text |-> text, num |-> num]

\* the leftmost match of a pattern whose match at position i is At(i)
Leftmost(s, At(_)) ==
    LET at == {i \in DOMAIN s : At(i).found}
    IN  IF at = {} THEN NoMatch ELSE At(Least(at))

\* the end of \.?\d* read from position dot on (dot - 1 when nothing is
\* read)
FractionEnd(s, dot) ==
    IF dot <= Len(s) /\ s[dot] = "."
    THEN dot + RunLen(s, dot + 1, Digits)
    ELSE dot - 1

\* /(\d+\.?\d*)\s*¢/ matched at position i
CentAt(s, i) ==
    LET Token(numEnd, cent) ==
            IF /\ i >= 1 /\ i <= Len(s) /\ s[i] \in Digits
               /\ cent <= Len(s) /\ s[cent] = Cent
            THEN Match(SubSeq(s, i, cent), SubSeq(s, i, numEnd))
            ELSE NoMatch
        Number(numEnd) ==
            Token(numEnd, numEnd + 1 + RunLen(s, numEnd + 1, Whitespace))
    IN  Number(FractionEnd(s, i + RunLen(s, i, Digits)))

\* s.match(/(\d+\.?\d*)\s*¢/)
CentMatch(s) == Leftmost(s, LAMBDA i : CentAt(s, i))

\* label, ignoring case, at position i
LabelOccursAt(s, label, i) ==
    /\ i + Len(label) - 1 <= Len(s)
    /\ \A k \in 1..Len(label) : LowerChar(s[i + k - 1]) = label[k]

\* /<label><sep>+(\d+\.?\d*)\s*¢/i matched at position i
LabelledCentAt(s, label, sep, i) ==
    LET from == i + Len(label)
        gap == RunLen(s, from, sep)
    IN  IF LabelOccursAt(s, label, i) /\ gap > 0
        THEN CentAt(s, from + gap)
        ELSE NoMatch

\* /at\s+(\d+\.?\d*)\s*¢/i, /avg[:\s]+(\d+\.?\d*)\s*¢/i and
\* /average[:\s]+(\d+\.?\d*)\s*¢/i
AtPattern(s) ==
    Leftmost(s, LAMBDA i : LabelledCentAt(s, <<"a","t">>, Whitespace, i))
AvgPattern(s) ==
    Leftmost(s, LAMBDA i : LabelledCentAt(s, <<"a","v","g">>, Whitespace \cup {":"}, i))
AveragePattern(s) ==
    Leftmost(s, LAMBDA i :
                  LabelledCentAt(s, <<"a","v","e","r","a","g","e">>, Whitespace \cup {":"}, i))

\* /\$[\d,]+\.?\d*/ matched at position i (the pattern has no group)
DollarAt(s, i) ==
    LET Amount(int) ==
            IF s[i] = "$" /\ int > 0
            THEN Match(SubSeq(s, i, FractionEnd(s, i + 1 + int)), <<>>)
            ELSE NoMatch
    IN  Amount(RunLen(s, i + 1, Digits \cup {","}))

\* s.match(/\$[\d,]+\.?\d*/)
DollarMatch(s) == Leftmost(s, LAMBDA i : DollarAt(s, i))

\* /<label>[:\s]+\$?([\d,]+\.?\d*)/i matched at position i
LabelledAmountAt(s, label, i) ==
    LET Amount(num, int, numEnd) ==
            IF int > 0
            THEN Match(SubSeq(s, i, numEnd), SubSeq(s, num, numEnd))
            ELSE NoMatch
        Number(num, int) == Amount(num, int, FractionEnd(s, num + int))
        From(num) == Number(num, RunLen(s, num, Digits \cup {","}))
        Sign(sign) ==
            From(IF sign <= Len(s) /\ s[sign] = "$" THEN sign + 1 ELSE sign)
        Gap(gap) ==
            IF LabelOccursAt(s, label, i) /\ gap > 0
            THEN Sign(i + Len(label) + gap)
            ELSE NoMatch
    IN  Gap(RunLen(s, i + Len(label), Whitespace \cup {":"}))

LabelledAmount(s, label) ==
    Leftmost(s, LAMBDA i : LabelledAmountAt(s, label, i))

\* the first match of a list of matches (NoMatch without one)
FirstFound(ms) ==
    LET found == {i \in DOMAIN ms : ms[i].found}
    IN  IF found = {} THEN NoMatch ELSE ms[Least(found)]


(***************************************************************************)
(* HTMLAnchorElement.href: the href attribute resolved against the         *)
(* document's URL, as the browser's URL parser resolves it.  The forms     *)
(* modelled are scheme://host..., a non-special scheme, //host..., a       *)
(* root-relative path, a bare path and the empty string, without spaces    *)
(* in path or query; a host that is empty or has a space in it does not    *)
(* parse.  Any other form has no arm below and stops the check.            *)
(***************************************************************************)
\* the scheme of s, lower-cased (empty without one)
SchemeOf(s) ==
    LET colon == FirstIn(s, 1, {":"})
    IN  IF /\ colon <= Len(s) /\ colon > 1 /\ IsAlpha(s[1])
           /\ \A i \in 1..(colon - 1) : SchemeChar(s[i])
        THEN ToLowerCase(SubSeq(s, 1, colon - 1))
        ELSE <<>>

\* a path without its "." and ".." segments; rest is what is left to read
\* (empty, or starting with "/"), out the path written so far
RECURSIVE RemoveDotSegments(_, _)
RemoveDotSegments(rest, out) ==
    IF rest = <<>> THEN (IF out = <<>> THEN <<"/">> ELSE out)
    ELSE LET seg == SplitFirst(Tail(rest), "/")
             after == SubSeq(rest, Len(seg) + 2, Len(rest))
             slashes == {i \in DOMAIN out : out[i] = "/"}
             popped == IF slashes = {} THEN <<>>
                       ELSE SubSeq(out, 1, (CHOOSE i \in slashes :
                                               \A j \in slashes : j <= i) - 1)
         IN  CASE seg = <<".">> ->
                    IF after = <<>> THEN out \o <<"/">>
                    ELSE RemoveDotSegments(after, out)
               [] seg = <<".", ".">> ->
                    IF after = <<>> THEN popped \o <<"/">>
                    ELSE RemoveDotSegments(after, popped)
               [] OTHER -> RemoveDotSegments(after, out \o <<"/">> \o seg)

\* a path followed by a query or a fragment, the path without dot segments
CleanPath(s) ==
    LET pathEnd == FirstIn(s, 1, {"?", "#"}) - 1
    IN  RemoveDotSegments(SubSeq(s, 1, pathEnd), <<>>)
        \o SubSeq(s, pathEnd + 1, Len(s))

\* the parts of a document URL scheme://host/path?query#fragment
BaseHostEnd(base) ==
    FirstIn(base, FirstIn(base, 1, {":"}) + 3, {"/", "?", "#"}) - 1
BaseOrigin(base) == SubSeq(base, 1, BaseHostEnd(base))
BasePath(base) ==
    SubSeq(base, BaseHostEnd(base) + 1,
           FirstIn(base, BaseHostEnd(base) + 1, {"?", "#"}) - 1)
\* the path up to its last "/"
BaseDir(base) ==
    LET Dir(path) ==
            LET slashes == {i \in DOMAIN path : path[i] = "/"}
            IN  IF slashes = {} THEN <<"/">>
                ELSE SubSeq(path, 1,
                            CHOOSE i \in slashes : \A j \in slashes : j <= i)
    IN  Dir(BasePath(base))

\* the URL "<scheme>:" followed by s = "//host...", or Failure for a host
\* that does not parse
Failure == <<"failure">>
WithAuthority(scheme, s) ==
    LET Host(hostTo, host) ==
            IF host = <<>> \/ Range(host) \cap Whitespace # {}
            THEN Failure
            ELSE scheme \o <<":", "/", "/">> \o ToLowerCase(host)
                 \o CleanPath(SubSeq(s, hostTo + 1, Len(s)))
        To(hostTo) == Host(hostTo, SubSeq(s, 3, hostTo))
    IN  To(FirstIn(s, 3, {"/", "?", "#"}) - 1)

NoSpaces(s) == Range(s) \cap Whitespace = {}

\* the URL parser applied to the attribute value with the base URL
ParseURL(attr, base) ==
    LET Parse(a, scheme, rest) ==
            CASE scheme \in SpecialSchemes /\ StartsWith(rest, <<"/", "/">>) ->
                    WithAuthority(scheme, rest)
              [] scheme # <<>> /\ scheme \notin SpecialSchemes /\ NoSpaces(a) ->
                    scheme \o <<":">> \o rest
              [] scheme = <<>> /\ StartsWith(a, <<"/", "/">>) ->
                    WithAuthority(SchemeOf(base), a)
              [] /\ scheme = <<>> /\ StartsWith(a, <<"/">>)
                 /\ ~StartsWith(a, <<"/", "/">>) /\ NoSpaces(a) ->
                    BaseOrigin(base) \o CleanPath(a)
              [] a = <<>> -> SplitFirst(base, "#")
              [] /\ scheme = <<>> /\ a # <<>> /\ NoSpaces(a)
                 /\ a[1] \notin {"/", "\\", "?", "#"} ->
                    BaseOrigin(base) \o CleanPath(BaseDir(base) \o a)
        Scheme(a, scheme) ==
            Parse(a, scheme, SubSeq(a, Len(scheme) + 2, Len(a)))
        Trimmed(a) == Scheme(a, SchemeOf(a))
    IN  Trimmed(Trim(attr))

(***************************************************************************)
(* An a element: whether it has an href attribute and the attribute's      *)
(* value, its class attribute, its rendered text and its text content,     *)
(* and the URL of its document.                                            *)
(***************************************************************************)
Anchor(hasHref, hrefAttr, className, innerText, textContent, baseURI) ==
    [hasHref |-> hasHref, hrefAttr |-> hrefAttr, className |-> className,
     innerText |-> innerText, textContent |-> textContent,
     baseURI |-> baseURI]

\* link.href: empty without the attribute, the attribute's value as written
\* when it does not parse, else the parsed URL
Href(a) ==
    LET Parsed(url) == IF url = Failure THEN a.hrefAttr ELSE url
    IN  IF ~a.hasHref THEN <<>>
        ELSE Parsed(ParseURL(a.hrefAttr, a.baseURI))

\* link.getAttribute('href') || ''
HrefAttribute(a) == IF a.hasHref THEN a.hrefAttr ELSE <<>>

EventPath == <<"/","e","v","e","n","t","/">>


(***************************************************************************)
(* A container: its tag and its child elements in document order.  A       *)
(* child has a tag and a text, which is its own or (wrap) that of a span   *)
(* nested in it.  The anchor's text is part of the text of the child it    *)
(* lies in.                                                                *)
(***************************************************************************)
Element(tag, text, wrap) == [tag |-> tag, text |-> text, wrap |-> wrap]
Container(tag, kids) == [tag |-> tag, kids |-> kids]

RECURSIVE Flatten(_)
\* the concatenation of a sequence of sequences
Flatten(ss) == IF ss = <<>> THEN <<>> ELSE Head(ss) \o Flatten(Tail(ss))

\* line 266: container.textContent
ContainerText(c) == Flatten([i \in DOMAIN c.kids |-> c.kids[i].text])

\* line 271: the td and th elements of a table row
Cells(c) ==
    IF c.tag = "TR"
    THEN SelectSeq(c.kids, LAMBDA k : k.tag \in {"TD", "TH"})
    ELSE <<>>

\* container.querySelectorAll('span, div, p, td, th') in document order:
\* each element with its text and the text of its parent
Descendants(c) ==
    Flatten([i \in DOMAIN c.kids |->
        LET k == c.kids[i]
        IN  (IF k.tag \in {"SPAN", "DIV", "P", "TD", "TH"}
             THEN <<[text |-> k.text, parentText |-> ContainerText(c)]>>
             ELSE <<>>)
            \o (IF k.wrap
                THEN <<[text |-> k.text, parentText |-> k.text]>>
                ELSE <<>>)])

\* the first element of a sequence that satisfies P (0 without one)
FirstIndex(els, P(_)) ==
    LET at == {i \in DOMAIN els : P(els[i])}
    IN  IF at = {} THEN 0 ELSE Least(at)

(***************************************************************************)
(* Market name and URL: route.ts lines 251-263.                            *)
(***************************************************************************)
UnknownMarket == <<"U","n","k","n","o","w","n"," ","M","a","r","k","e","t">>
CanonicalOrigin == Https \o PolymarketCom

\* line 252: link.innerText?.trim() || link.textContent?.trim() || ''
marketName(a) ==
    IF Trim(a.innerText) # <<>> THEN Trim(a.innerText) ELSE Trim(a.textContent)

\* x || y for strings
OrElse(x, y) == IF x # <<>> THEN x ELSE y

\* a URL that is left as the anchor gives it
marketUrl_Unresolved(a) == OrElse(Href(a), HrefAttribute(a))

\* lines 253-261: link.href || link.getAttribute('href') || '', prefixed
\* with the origin when it does not start with "http"
marketUrl(a) ==
    LET Normalized(url) ==
            IF url # <<>> /\ ~StartsWith(url, <<"h","t","t","p">>)
            THEN IF StartsWith(url, <<"/">>)
                 THEN CanonicalOrigin \o url
                 ELSE CanonicalOrigin \o <<"/">> \o url
            ELSE url
    IN  Normalized(OrElse(Href(a), HrefAttribute(a)))

(***************************************************************************)
(* The priced quantity: route.ts lines 273-354.                            *)
(***************************************************************************)
\* a capture of the first cents token, with or without a label
avgPrice_Unlabelled(c) == CentMatch(ContainerText(c)).num

\* lines 274-286: the capture made before the strategies
avgPrice(c) ==
    LET In(text) == FirstFound(<<AtPattern(text), AvgPattern(text),
                                 AveragePattern(text)>>).num
    IN  In(ContainerText(c))

\* line 297
AvgKeyword(cellLower) ==
    \/ Includes(cellLower, <<"a","v","g">>)
    \/ Includes(cellLower, <<"a","v","e","r","a","g","e">>)
    \/ Includes(cellLower, <<"a","t">>)

\* lines 291-305: the first cell with a keyword and a cents token
AvgPriceFromCells(c) ==
    LET Cell(cells, i) ==
            IF i = 0 THEN <<>> ELSE CentMatch(cells[i].text).text
        In(cells) ==
            Cell(cells, FirstIndex(cells, LAMBDA cell :
                     /\ AvgKeyword(ToLowerCase(cell.text))
                     /\ CentMatch(cell.text).found))
    IN  In(Cells(c))

\* lines 323-325
IsAvg(context) ==
    \/ AtPattern(context).found
    \/ AvgPattern(context).found
    \/ AveragePattern(context).found

\* lines 307-332: the first element with a cents token whose context (its
\* text and its parent's) is an average; run whatever the cells gave
AvgPriceFromElements(c, current) ==
    LET Price(priceElements, i) ==
            IF i = 0 THEN current
            ELSE CentMatch(priceElements[i].text).text
        In(priceElements) ==
            Price(priceElements, FirstIndex(priceElements, LAMBDA el :
                        IsAvg(ToLowerCase(el.text \o <<" ">> \o el.parentText))))
    IN  In(SelectSeq(Descendants(c), LAMBDA el : CentMatch(el.text).found))

\* lines 334-349: the labelled patterns over the container text
AvgPriceFromText(c, current) ==
    LET Found(match) == IF match.found THEN match.num \o <<Cent>> ELSE <<>>
        In(text) == Found(FirstFound(<<AvgPattern(text), AveragePattern(text),
                                       AtPattern(text)>>))
    IN  IF current # <<>> THEN current ELSE In(ContainerText(c))

\* lines 351-354: the earlier capture
AvgPriceFromCapture(c, current) ==
    LET Reuse(capture) ==
            IF current = <<>> /\ capture # <<>>
            THEN capture \o <<Cent>>
            ELSE current
    IN  Reuse(avgPrice(c))

(***************************************************************************)
(* The monetary value: route.ts lines 356-422.                             *)
(***************************************************************************)
\* lines 367-368 and 391
ValueKeyword(context) ==
    \/ Includes(context, <<"v","a","l","u","e">>)
    \/ Includes(context, <<"p","n","l">>)
    \/ Includes(context, <<"p","r","o","f","i","t">>)
    \/ Includes(context, <<"l","o","s","s">>)

RECURSIVE ValueLoop(_, _, _)
\* the loop of lines 361-376 and of lines 385-399 from element i on: the
\* dollar amount of the first element whose context has a keyword, else the
\* value so far or, without one, the first dollar amount
ValueLoop(els, i, current) ==
    LET Step(valueMatch) ==
            IF valueMatch.found
            THEN IF ValueKeyword(ToLowerCase(els[i].context))
                 THEN valueMatch.text
                 ELSE ValueLoop(els, i + 1, OrElse(current, valueMatch.text))
            ELSE ValueLoop(els, i + 1, current)
    IN  IF i > Len(els) THEN current
        ELSE Step(DollarMatch(els[i].text))

\* lines 359-377: the cells of a table row, each in the context of its text
ValueFromCells(c) ==
    LET In(cells) ==
            ValueLoop([i \in DOMAIN cells |->
                          [text |-> cells[i].text, context |-> cells[i].text]],
                      1, <<>>)
    IN  In(Cells(c))

\* lines 379-399: the elements with a dollar amount, each in the context of
\* its text (el.textContent || el.parentElement?.textContent); run whatever
\* the cells gave
ValueFromElements(c, current) ==
    LET In(valueElements) ==
            ValueLoop([i \in DOMAIN valueElements |->
                          [text |-> valueElements[i].text,
                           context |-> OrElse(valueElements[i].text,
                                              valueElements[i].parentText)]],
                      1, current)
    IN  In(SelectSeq(Descendants(c), LAMBDA el : DollarMatch(el.text).found))

\* s.replace(/<label>[:\s]+/i, '')
RemoveLabel(s, label) ==
    LET at == {i \in DOMAIN s :
                  /\ LabelOccursAt(s, label, i)
                  /\ RunLen(s, i + Len(label), Whitespace \cup {":"}) > 0}
        i == Least(at)
    IN  IF at = {} THEN s
        ELSE SubSeq(s, 1, i - 1)
             \o SubSeq(s, i + Len(label)
                          + RunLen(s, i + Len(label), Whitespace \cup {":"}),
                       Len(s))

\* lines 401-422: the bare dollar pattern, then the labelled patterns
ValueFromText(c, current) ==
    LET Found(match) ==
            IF ~match.found THEN <<>>
            ELSE IF match.num # <<>> THEN <<"$">> \o match.num
            ELSE Trim(RemoveLabel(RemoveLabel(RemoveLabel(RemoveLabel(
                     match.text, <<"v","a","l","u","e">>), <<"p","n","l">>), <<"p","r","o","f","i","t">>), <<"l","o","s","s">>))
        In(text) ==
            Found(FirstFound(<<DollarMatch(text),
                               LabelledAmount(text, <<"v","a","l","u","e">>),
                               LabelledAmount(text, <<"p","n","l">>),
                               LabelledAmount(text, <<"p","r","o","f","i","t">>),
                               LabelledAmount(text, <<"l","o","s","s">>)>>))
    IN  IF current # <<>> THEN current ELSE In(ContainerText(c))


(***************************************************************************)
(* The anchors processed: route.ts lines 176-196.                          *)
(***************************************************************************)
\* line 178: the selector a[href*="/event/"], a test of the attribute
MatchesSelector(a) == a.hasHref /\ Includes(a.hrefAttr, EventPath)

\* lines 183-188
IsStyled(a) ==
    /\ Includes(a.className, <<"f","l","e","x","-","1">>)
    /\ Includes(a.className, <<"c","u","r","s","o","r","-","p","o","i","n","t","e","r">>)
    /\ Includes(Href(a), EventPath)

\* line 194
IsMarketLink(a) ==
    LET Matches(href) == href # <<>> /\ Includes(href, EventPath)
    IN  Matches(Href(a))

(***************************************************************************)
(* One iteration of marketLinks.forEach, from the container on: route.ts   *)
(* lines 251-473.                                                          *)
(***************************************************************************)
\* the priced quantity and the monetary value after each strategy
Strategies(c) ==
    LET priceA == AvgPriceFromCells(c)
        priceB == AvgPriceFromElements(c, priceA)
        priceC == AvgPriceFromText(c, priceB)
        priceD == AvgPriceFromCapture(c, priceC)
        valueA == ValueFromCells(c)
        valueB == ValueFromElements(c, valueA)
        valueC == ValueFromText(c, valueB)
    IN  [avgPrice |-> avgPrice(c),
         priceA |-> priceA, priceB |-> priceB, priceC |-> priceC,
         priceD |-> priceD,
         valueA |-> valueA, valueB |-> valueB, valueC |-> valueC]

\* the results array after the iteration for anchor a, s being the
\* strategies' results for its container (one array for each outcome the
\* calculation can give)
Pushed(a, s) ==
    LET Named(name, url) ==
            IF url = <<>> THEN {<<>>}
            ELSE {<<Position(OrElse(name, UnknownMarket),
                             url, out, s.priceD, s.valueC)>> :
                     out \in Outcomes(s.priceD, s.valueC)}
    IN  Named(marketName(a), marketUrl(a))

(***************************************************************************)
(* SpecField: the extraction of one record.  The anchor is any a element   *)
(* of the document; it is processed when the selector and the filter of    *)
(* line 194 let it through (fewer than five styled anchors).               *)
(***************************************************************************)
WillX == <<"W","i","l","l"," ","X","?">>

HrefPool ==
    {<<"/","e","v","e","n","t","/","a">>, <<"m","/","e","v","e","n","t","/","a">>, <<"h","t","t","p","s",":","/","/","p","o","l","y","m","a","r","k","e","t",".","c","o","m","/","e","v","e","n","t","/","a">>,
     <<"H","T","T","P",":","/","/","P","o","l","y","m","a","r","k","e","t",".","C","O","M","/","e","v","e","n","t","/","A">>, <<"/","e","v","e","n","t","/",".",".","/","x">>, <<"/","a","b","o","u","t">>,
     <<"/","/","a"," ","b","/","e","v","e","n","t","/","x">>, <<"h","t","t","p",":","/","/","a"," ","b","/","e","v","e","n","t","/","x">>, <<"m","a","i","l","t","o",":","x","/","e","v","e","n","t","/","y">>, <<>>}

TextPool ==
    {<<WillX, WillX>>, <<<<" ","W","i","l","l"," ","X","?"," ">>, <<" ","W","i","l","l"," ","X","?"," ">>>>, <<<<>>, WillX>>,
     <<<<>>, <<>>>>, <<<<" ">>, <<" "," ">>>>}

LinkPool ==
    {Anchor(TRUE, h, <<>>, t[1], t[2], base) :
        h \in HrefPool, t \in TextPool, base \in {ProfileOk, ForeignWithName}}
    \cup {Anchor(FALSE, <<>>, <<>>, t[1], t[2], ProfileOk) : t \in TextPool}

KidPool ==
    {Element("TD", <<"6","0"," ",Cent>>, FALSE),
     Element("TD", <<"a","v","g"," ","4","5",Cent>>, FALSE),
     Element("TD", <<"4","5",Cent," ","a","v","g">>, FALSE),
     Element("TD", <<"a","t"," ","3","0",Cent>>, TRUE),
     Element("TD", <<"$","9","0","0">>, TRUE),
     Element("TD", <<"V","a","l","u","e"," ","$","5">>, FALSE),
     Element("DIV", <<"V","a","l","u","e"," ","$","5">>, FALSE),
     Element("TH", <<"P","n","L",":"," ","1",",","2","0","0",".","5","0">>, FALSE)}

ContainerPool ==
    {Container(tag, kids) :
        tag \in {"TR", "DIV"}, kids \in SeqsUpTo(KidPool, MaxKids)}

SimpleLink == Anchor(TRUE, <<"/","e","v","e","n","t","/","a">>, <<>>, WillX, WillX, ProfileOk)
SimpleContainer ==
    Container("TR", <<Element("TD", WillX, FALSE),
                      Element("TD", <<"4","5",Cent," ","a","v","g">>, FALSE),
                      Element("TD", <<"$","9","0","0">>, FALSE)>>)

InitField ==
    /\ OuterIdle
    /\ NormIdle /\ DedupIdle /\ OutcomeIdle
    /\ SelectIdle /\ LocateIdle /\ ScrollIdle
    /\ \/ link \in LinkPool /\ fieldContainer = SimpleContainer
       \/ link = SimpleLink /\ fieldContainer \in ContainerPool
    /\ pushed = <<>>
    /\ trace = <<>>
    /\ fieldPc = "in"

ExtractLink ==
    /\ fieldPc = "in"
    /\ IF MatchesSelector(link) /\ IsMarketLink(link)
       THEN /\ trace' = Strategies(fieldContainer)
            /\ pushed' \in Pushed(link, trace')
       ELSE /\ pushed' = <<>>
            /\ trace' = <<>>
    /\ fieldPc' = "out"
    /\ UNCHANGED <<link, fieldContainer, outerVars, normVars, dedupVars,
                   outcomeVars, selVars, locVars, scrollVars>>

NextField == ExtractLink

SpecField == InitField /\ [][NextField]_vars


(***************************************************************************)
(* Container resolution: route.ts lines 202-249.  The anchor's ancestors   *)
(* are given from its parent upward, each with its tag, its class and role *)
(* attributes, the number of its child elements and the number of          *)
(* a[href*="/event/"] elements in it (the anchor is one of them, so with   *)
(* one such element linksIn[0] is the anchor).                             *)
(***************************************************************************)
Ancestor(tag, className, role, children, links) ==
    [tag |-> tag, className |-> className, role |-> role,
     children |-> children, links |-> links]

\* link.closest(selector): the nearest ancestor that satisfies Sel (0 for
\* null); the anchor itself is neither a tr nor a div
Closest(anc, Sel(_)) ==
    LET at == {k \in DOMAIN anc : Sel(anc[k])}
    IN  IF at = {} THEN 0 ELSE Least(at)

\* linksIn.length === 1 && linksIn[0] === link
OnlyThisLink(el) == el.links = 1

\* lines 204-211: strategy 1, the table row
ClosestRow(anc) ==
    LET tr == Closest(anc, LAMBDA el : el.tag = "TR")
    IN  IF tr # 0 /\ OnlyThisLink(anc[tr]) THEN tr ELSE 0

\* lines 215-217: the div the second strategy looks at
MarkedDiv(anc) ==
    LET position == Closest(anc, LAMBDA el :
                       el.tag = "DIV" /\ Includes(el.className, <<"p","o","s","i","t","i","o","n">>))
        row == Closest(anc, LAMBDA el :
                       el.tag = "DIV" /\ Includes(el.className, <<"r","o","w">>))
        roleRow == Closest(anc, LAMBDA el :
                       el.tag = "DIV" /\ el.role = <<"r","o","w">>)
    IN  IF position # 0 THEN position
        ELSE IF row # 0 THEN row
        ELSE roleRow

\* lines 213-224: strategy 2
ClosestMarked(anc) ==
    LET div == MarkedDiv(anc)
    IN  IF div # 0 /\ OnlyThisLink(anc[div]) THEN div ELSE 0

\* a walk without the bound on its depth
RECURSIVE Walk_Unbounded(_, _, _)
Walk_Unbounded(anc, current, d) ==
    IF current <= Len(anc)
    THEN IF OnlyThisLink(anc[current]) /\ anc[current].children > 2
         THEN [container |-> current, depth |-> d]
         ELSE Walk_Unbounded(anc, current + 1, d + 1)
    ELSE [container |-> 0, depth |-> d]

RECURSIVE Walk(_, _, _)
\* lines 228-241: the while loop of strategy 3, current being the ancestor
\* looked at (beyond the last one parentElement is null) and d the depth
Walk(anc, current, d) ==
    IF current <= Len(anc) /\ d < 5
    THEN IF OnlyThisLink(anc[current]) /\ anc[current].children > 2
         THEN [container |-> current, depth |-> d]
         ELSE Walk(anc, current + 1, d + 1)
    ELSE [container |-> 0, depth |-> d]

\* line 246: link.parentElement?.parentElement || link.parentElement
Fallback(anc) == IF Len(anc) >= 2 THEN 2 ELSE IF Len(anc) >= 1 THEN 1 ELSE 0

\* a resolution that tries the marked div before the table row
ResolveContainer_MarkerFirst(anc) ==
    LET walk == Walk(anc, 1, 0)
    IN  IF ClosestMarked(anc) # 0
        THEN [container |-> ClosestMarked(anc), strategy |-> 2, depth |-> 0]
        ELSE IF ClosestRow(anc) # 0
        THEN [container |-> ClosestRow(anc), strategy |-> 1, depth |-> 0]
        ELSE IF walk.container # 0
        THEN [container |-> walk.container, strategy |-> 3,
              depth |-> walk.depth]
        ELSE [container |-> Fallback(anc),
              strategy |-> IF Fallback(anc) # 0 THEN 4 ELSE 0,
              depth |-> walk.depth]

\* lines 202-249: the first strategy that sets container
ResolveContainer(anc) ==
    LET walk == Walk(anc, 1, 0)
    IN  IF ClosestRow(anc) # 0
        THEN [container |-> ClosestRow(anc), strategy |-> 1, depth |-> 0]
        ELSE IF ClosestMarked(anc) # 0
        THEN [container |-> ClosestMarked(anc), strategy |-> 2, depth |-> 0]
        ELSE IF walk.container # 0
        THEN [container |-> walk.container, strategy |-> 3,
              depth |-> walk.depth]
        ELSE [container |-> Fallback(anc),
              strategy |-> IF Fallback(anc) # 0 THEN 4 ELSE 0,
              depth |-> walk.depth]

(***************************************************************************)
(* SpecLocate: the resolution for an anchor of the document.  The anchor   *)
(* has up to MaxAncestors ancestors with tags and markers drawn, or up to  *)
(* MaxPlainAncestors ancestors that are all plain div elements; up to one  *)
(* other matching anchor lies in the subtree of an ancestor that has more  *)
(* than one child, and of those above it.                                  *)
(***************************************************************************)
ElementKinds ==
    {<<"DIV", <<>>, <<>>>>, <<"DIV", <<"p","o","s","i","t","i","o","n","-","c","a","r","d">>, <<>>>>,
     <<"DIV", <<"r","o","w">>, <<>>>>, <<"DIV", <<>>, <<"r","o","w">>>>,
     <<"TR", <<>>, <<>>>>}

\* the chain of ancestors of the given kinds and child counts; from level
\* other on (0 for never) the subtree holds a second anchor
ChainOf(kind, children, other) ==
    [k \in DOMAIN kind |->
        Ancestor(kind[k][1], kind[k][2], kind[k][3], children[k],
                 IF other # 0 /\ k >= other THEN 2 ELSE 1)]

\* anc is a chain of up to max ancestors, kinds from K, child counts from C
Chains(anc, max, K, C) ==
    \E n \in 1..max :
        \E kind \in [1..n -> K], children \in [1..n -> C], other \in 0..n :
            anc = ChainOf(kind, children, other)

\* a chain the DOM can have: where the second anchor comes in, the ancestor
\* has a child for it
WellFormed(anc) ==
    \A k \in DOMAIN anc :
        anc[k].links > (IF k = 1 THEN 1 ELSE anc[k - 1].links)
            => anc[k].children >= 2

InitLocate ==
    /\ OuterIdle
    /\ NormIdle /\ DedupIdle /\ OutcomeIdle
    /\ SelectIdle /\ FieldIdle /\ ScrollIdle
    /\ \/ Chains(ancestors, MaxAncestors, ElementKinds, {1, 3})
       \/ Chains(ancestors, MaxPlainAncestors, {<<"DIV", <<>>, <<>>>>}, {2, 3})
    /\ WellFormed(ancestors)
    /\ container = 0
    /\ strategy = 0
    /\ depth = 0
    /\ locPc = "in"

Locate ==
    /\ locPc = "in"
    /\ LET r == ResolveContainer(ancestors)
       IN  /\ container' = r.container
           /\ strategy' = r.strategy
           /\ depth' = r.depth
    /\ locPc' = "out"
    /\ UNCHANGED <<ancestors, outerVars, normVars, dedupVars, outcomeVars,
                   selVars, fieldVars, scrollVars>>

NextLocate == Locate

SpecLocate == InitLocate /\ [][NextLocate]_vars

(***************************************************************************)
(* Anchor selection: route.ts lines 176-196.  The document's anchors are   *)
(* given in document order; the lists hold their positions in it.          *)
(***************************************************************************)
\* Array.prototype.filter over the anchors at the positions idx
FilterLinks(as, idx, Keep(_)) == SelectSeq(idx, LAMBDA i : Keep(as[i]))

\* lines 177-179: querySelectorAll gives the matching elements in document
\* order
allMarketLinks(as) ==
    FilterLinks(as, [i \in 1..Len(as) |-> i], MatchesSelector)

\* a selection that is content with four styled anchors
SelectLinks_FourSuffice(as) ==
    LET styled == FilterLinks(as, allMarketLinks(as), IsStyled)
    IN  IF Len(styled) < 4
        THEN FilterLinks(as, allMarketLinks(as), IsMarketLink)
        ELSE styled

\* lines 182-196: marketLinks
SelectLinks(as) ==
    LET styled == FilterLinks(as, allMarketLinks(as), IsStyled)
    IN  IF Len(styled) < 5
        THEN FilterLinks(as, allMarketLinks(as), IsMarketLink)
        ELSE styled

(***************************************************************************)
(* SpecSelect: the selection over a document of up to MaxAnchors anchors:  *)
(* a styled anchor of a market, one that carries only one of the two       *)
(* classes, and a styled anchor whose attribute holds /event/ while the    *)
(* URL it resolves to does not.                                            *)
(***************************************************************************)
AnchorKinds ==
    {Anchor(TRUE, <<"/","e","v","e","n","t","/","a">>, <<"c","-","b","l","u","e"," ","f","l","e","x","-","1"," ","c","u","r","s","o","r","-","p","o","i","n","t","e","r">>, WillX, WillX, ProfileOk),
     Anchor(TRUE, <<"/","e","v","e","n","t","/","b">>, <<"f","l","e","x","-","1">>, WillX, WillX, ProfileOk),
     Anchor(TRUE, <<"/","e","v","e","n","t","/",".",".","/","x">>, <<"f","l","e","x","-","1"," ","c","u","r","s","o","r","-","p","o","i","n","t","e","r">>, WillX, WillX, ProfileOk)}

InitSelect ==
    /\ OuterIdle
    /\ NormIdle /\ DedupIdle /\ OutcomeIdle
    /\ LocateIdle /\ FieldIdle /\ ScrollIdle
    /\ \E n \in 0..MaxAnchors : anchors \in [1..n -> AnchorKinds]
    /\ marketLinks = <<>>
    /\ selPc = "in"

Select ==
    /\ selPc = "in"
    /\ marketLinks' = SelectLinks(anchors)
    /\ selPc' = "out"
    /\ UNCHANGED <<anchors, outerVars, normVars, dedupVars, outcomeVars,
                   locVars, fieldVars, scrollVars>>

NextSelect == Select

SpecSelect == InitSelect /\ [][NextSelect]_vars

(***************************************************************************)
(* The scroll script: route.ts lines 119-161.  It runs in the page; each   *)
(* turn of its loop scrolls, waits on two timers and samples the height of *)
(* the document and the number of market links, which the page is free to  *)
(* change between samples.  (The destruction of the page's context while   *)
(* the script runs is the Throw of the handler's Scroll step.)             *)
(***************************************************************************)
maxScrolls == 50

\* the length of the run of latest samples that equal the sample taken just
\* before them, once `sample` follows a history whose run was `run`; the
\* first sample of a loop has no sample before it
StableRun(history, run, sample) ==
    IF history # <<>> /\ sample = history[1] THEN run + 1 ELSE 0

\* a loop that is content with two stable samples
Scrolling_TwoSuffice == scrollCount < maxScrolls /\ stableCount < 2

\* line 134: the condition of the while loop
Scrolling == scrollCount < maxScrolls /\ stableCount < 3

InitScroll ==
    /\ OuterIdle
    /\ NormIdle /\ DedupIdle /\ OutcomeIdle
    /\ SelectIdle /\ LocateIdle /\ FieldIdle
    /\ lastHeight = 0
    /\ lastLinkCount = 0
    /\ scrollCount = 0
    /\ stableCount = 0
    /\ samples = <<>>
    /\ stableRun = 0
    /\ scrollPc = "loop"

\* lines 135-151: one turn of the loop
ScrollStep ==
    /\ scrollPc = "loop"
    /\ Scrolling
    /\ \E currentHeight \in 0..MaxHeight, currentLinkCount \in 0..MaxLinks :
          /\ stableCount' =
                (IF currentHeight = lastHeight /\ currentLinkCount = lastLinkCount
                 THEN stableCount + 1
                 ELSE 0)
          /\ lastHeight' = currentHeight
          /\ lastLinkCount' = currentLinkCount
          /\ samples' = <<(<<currentHeight, currentLinkCount>>)>>
          /\ stableRun' = StableRun(samples, stableRun,
                                    <<currentHeight, currentLinkCount>>)
    /\ scrollCount' = scrollCount + 1
    /\ UNCHANGED <<scrollPc, outerVars, normVars, dedupVars, outcomeVars,
                   selVars, locVars, fieldVars>>

\* lines 154-155: the loop is left, final scroll to the bottom
ScrollToBottom ==
    /\ scrollPc = "loop"
    /\ ~Scrolling
    /\ scrollPc' = "bottom"
    /\ UNCHANGED <<lastHeight, lastLinkCount, scrollCount, stableCount,
                   samples, stableRun, outerVars, normVars, dedupVars, outcomeVars,
                   selVars, locVars, fieldVars>>

\* lines 158-159: scroll back to the top; the script returns
ScrollToTop ==
    /\ scrollPc = "bottom"
    /\ scrollPc' = "top"
    /\ UNCHANGED <<lastHeight, lastLinkCount, scrollCount, stableCount,
                   samples, stableRun, outerVars, normVars, dedupVars, outcomeVars,
                   selVars, locVars, fieldVars>>

NextScroll == ScrollStep \/ ScrollToBottom \/ ScrollToTop

\* the timers the script awaits always fire, so a step that can be taken is
\* taken
SpecScroll == InitScroll /\ [][NextScroll]_vars /\ WF_vars(NextScroll)

(***************************************************************************)
(* SpecEach: the pass over the anchors, route.ts lines 199-494.  What the  *)
(* body finds for an anchor (SpecLocate, SpecField) is drawn; an error may *)
(* be raised while the container is resolved, while the priced quantity or *)
(* the value is extracted, or inside the outcome calculation.              *)
(***************************************************************************)
MaxEach == 3        \* anchors of a drawn pass

\* an anchor of the pass: the name and URL of lines 252-253, the priced
\* quantity and the value its container yields, whether a container is
\* found, and where an error is raised ("none" for nowhere)
EachAnchor(name, url, avg, val, found, raises) ==
    [name |-> name, url |-> url, avg |-> avg, val |-> val,
     found |-> found, raises |-> raises]

EachPool ==
    { EachAnchor(<<"W","i","l","l"," ","A","?">>, EventBase \o <<"a">>, <<"5","0",Cent>>, <<"$","1","0","0">>, TRUE, "none"),
      EachAnchor(<<"A"," ","a","g","a","i","n">>, EventBase \o <<"a","?","q","=","1">>, <<>>, <<"$","5">>, TRUE, "none"),
      EachAnchor(<<"W","i","l","l"," ","C","?">>, EventBase \o <<"c">>, <<"5",Cent>>, <<"$","5">>, FALSE, "none"),
      EachAnchor(<<"N","o"," ","U","R","L">>, <<>>, <<"5",Cent>>, <<"$","5">>, TRUE, "none") }
    \cup { EachAnchor(<<"W","i","l","l"," ","B","?">>, EventBase \o <<"b">>, <<"5",Cent>>, <<"$","5">>, TRUE, raises) :
              raises \in {"container", "avgPrice", "value", "outcome"} }

\* lines 200-263 and 475-478: the errors that reach the catch of the body
\* before anything is pushed
ThrowsToCatch(a) ==
    \/ a.raises = "container"
    \/ /\ a.found
       /\ a.url # <<>>
       /\ a.raises \in {"avgPrice", "value"}

\* lines 424-448: the outcome; an error raised inside the try of line 428
\* is caught at line 445 and leaves it empty
OutcomeOf(a) ==
    IF a.raises = "outcome" /\ a.avg # <<>> /\ a.val # <<>>
    THEN {<<>>}
    ELSE Outcomes(a.avg, a.val)

\* lines 200-474: the records the body pushes for an anchor when no error
\* reaches the catch of line 475: none when it returns at line 249 or 263
EachPushed(a) ==
    IF ~a.found \/ a.url = <<>> THEN {<<>>}
    ELSE {<<Position(OrElse(a.name, UnknownMarket), a.url, out, a.avg, a.val)>> :
             out \in OutcomeOf(a)}

InitEach ==
    /\ HandlerIdle
    /\ ClientIdle
    /\ budgetElapsed = FALSE
    /\ NormIdle /\ DedupIdle /\ OutcomeIdle
    /\ SelectIdle /\ LocateIdle /\ FieldIdle /\ ScrollIdle
    /\ \E n \in 0..MaxEach : eachLinks \in [1..n -> EachPool]
    /\ eachIndex = 0
    /\ eachResults = <<>>
    /\ eachErrors = {}
    /\ eachReturned = <<>>
    /\ eachPc = "loop"

\* a pass whose try encloses the forEach call: the first error ends it
EachLink_TryAroundLoop ==
    /\ eachPc = "loop"
    /\ eachIndex < Len(eachLinks)
    /\ IF ThrowsToCatch(eachLinks[eachIndex + 1])
       THEN /\ eachErrors' = eachErrors \cup {eachIndex + 1}
            /\ eachIndex' = Len(eachLinks)
            /\ UNCHANGED eachResults
       ELSE /\ \E push \in EachPushed(eachLinks[eachIndex + 1]) :
                  eachResults' = eachResults \o push
            /\ eachIndex' = eachIndex + 1
            /\ UNCHANGED eachErrors
    /\ UNCHANGED <<eachLinks, eachReturned, eachPc, handlerVars, normVars,
                   dedupVars, outcomeVars, pageVars, budgetElapsed,
                   clientVars>>

\* lines 199-479: one callback of forEach, the try and its catch
EachLink ==
    /\ eachPc = "loop"
    /\ eachIndex < Len(eachLinks)
    /\ IF ThrowsToCatch(eachLinks[eachIndex + 1])
       THEN /\ eachErrors' = eachErrors \cup {eachIndex + 1}
            /\ UNCHANGED eachResults
       ELSE /\ \E push \in EachPushed(eachLinks[eachIndex + 1]) :
                  eachResults' = eachResults \o push
            /\ UNCHANGED eachErrors
    /\ eachIndex' = eachIndex + 1
    /\ UNCHANGED <<eachLinks, eachReturned, eachPc, handlerVars, normVars,
                   dedupVars, outcomeVars, pageVars, budgetElapsed,
                   clientVars>>

\* lines 481-494: the deduplication, and the script returns
EachReturn ==
    /\ eachPc = "loop"
    /\ eachIndex = Len(eachLinks)
    /\ eachReturned' = uniqueResults(eachResults)
    /\ eachPc' = "returned"
    /\ UNCHANGED <<eachLinks, eachIndex, eachResults, eachErrors, handlerVars,
                   normVars, dedupVars, outcomeVars, pageVars, budgetElapsed,
                   clientVars>>

NextEach == EachLink \/ EachReturn

SpecEach == InitEach /\ [][NextEach]_vars

(***************************************************************************)
(* SpecClient: the page of the client, page.tsx lines 11-278 and 488-601.  *)
(* A batch is one run of fetchPositions; the replies of the scrape route   *)
(* and the moments at which they arrive are drawn.  An effect that follows *)
(* a change of state is part of the action that makes the change.          *)
(***************************************************************************)
Slots == 3
BatchLimit == 3
RefreshSeconds == 2     \* seconds of the refresh interval selected

\* null, where a string may stand
JsNull == "<null>"

\* a || b on strings
StringOr(a, b) == IF a # "" THEN a ELSE b

SlotTexts == {<<>>, <<" ">>, ProfileOk}

\* line 165: url && url.trim()
IsEntered(url) == url # <<>> /\ Trim(url) # <<>>

\* line 165: profileUrls.filter(url => url && url.trim())
validUrls(urls) == SelectSeq(urls, IsEntered)

\* line 173: validUrls.slice(0, 3)
urlsToProcess(urls) ==
    IF Len(validUrls(urls)) <= BatchLimit THEN validUrls(urls)
    ELSE SubSeq(validUrls(urls), 1, BatchLimit)

\* an entry of loadingStatus
LoadingStatus(isLoading, err) == [loading |-> isLoading, error |-> err]

\* what a request to the scrape route ends in: "ok" and "empty" are 200
\* responses, "http" is a response that is not ok, "network" a rejection of
\* fetch, "timeout" the abort of line 86 after 300000 ms
Reply(kind, pos, msg, err) ==
    [kind |-> kind, positions |-> pos, message |-> msg, error |-> err]

ReplyPool ==
    { Reply("ok", <<Position(<<"W","i","l","l"," ","A","?">>, EventBase \o <<"a">>, <<>>, <<"5",Cent>>, <<"$","5">>)>>, "", ""),
      Reply("ok", <<Position(<<"A"," ","a","g","a","i","n">>, EventBase \o <<"a","?","q","=","1">>, <<>>, <<>>, <<"$","7">>),
                    Position(<<"W","i","l","l"," ","B","?">>, EventBase \o <<"b">>, <<>>, <<>>, <<>>)>>, "", ""),
      Reply("empty", <<>>, EmptyMessage, "No positions found"),
      Reply("http", <<>>, "Unknown error occurred", "Scraping failed"),
      Reply("http", <<>>, "", ""),
      Reply("network", <<>>, "Failed to fetch", ""),
      Reply("timeout", <<>>, "signal is aborted without reason", "") }

\* lines 68-155: the status fetchSingleProfile leaves at its index and the
\* array it resolves to
fetchSingleProfile(reply) ==
    CASE reply.kind = "timeout" ->
            [status |-> LoadingStatus(FALSE, JsNull), value |-> <<>>]
      [] reply.kind = "network" ->
            [status |-> LoadingStatus(FALSE,
                           StringOr(reply.message,
                                    "An error occurred while scraping")),
             value |-> <<>>]
      [] reply.kind = "http" ->
            [status |-> LoadingStatus(FALSE,
                           StringOr(StringOr(reply.message, reply.error),
                                    "Failed to scrape positions")),
             value |-> <<>>]
      [] reply.kind \in {"ok", "empty"} /\ Len(reply.positions) = 0 ->
            [status |-> LoadingStatus(FALSE,
                           StringOr(reply.message, "No positions found")),
             value |-> <<>>]
      [] OTHER ->
            [status |-> LoadingStatus(FALSE, JsNull),
             value |-> reply.positions]

\* a call of fetchSingleProfile: awaiting its reply, or resolved
Pending == [state |-> "pending", kind |-> "", data |-> <<>>, value |-> <<>>]
Fulfilled(reply, resolved) ==
    [state |-> "fulfilled", kind |-> reply.kind, data |-> reply.positions,
     value |-> resolved]

\* lines 194-201: the values of the settled calls, in the order of the calls
allPositions(ps) == Flatten([k \in DOMAIN ps |-> ps[k].value])

\* a merge that lets the last record of a key win
uniquePositions_KeepsLast(all) ==
    LET F[i \in 0..Len(all)] ==
            IF i = 0 THEN <<>>
            ELSE IF \E j \in (i + 1)..Len(all) :
                       normalizedUrl(all[j].marketUrl) = normalizedUrl(all[i].marketUrl)
                 THEN F[i - 1]
                 ELSE Append(F[i - 1], all[i])
    IN  F[Len(all)]

\* lines 204-214: the reduce that drops a position whose normalised URL the
\* accumulator already holds
uniquePositions(all) ==
    LET F[i \in 0..Len(all)] ==
            IF i = 0 THEN <<>>
            ELSE IF \E j \in 1..(i - 1) :
                       normalizedUrl(all[j].marketUrl) = normalizedUrl(all[i].marketUrl)
                 THEN F[i - 1]
                 ELSE Append(F[i - 1], all[i])
    IN  F[Len(all)]

\* lines 239-257: the effect arms the countdown
Armed(auto, urls, pos) ==
    /\ auto
    /\ \E s \in DOMAIN urls : IsEntered(urls[s])
    /\ Len(pos) > 0

InitClient ==
    /\ HandlerIdle
    /\ NormIdle /\ DedupIdle /\ OutcomeIdle
    /\ SelectIdle /\ LocateIdle /\ FieldIdle /\ ScrollIdle /\ EachIdle
    /\ budgetElapsed = FALSE
    /\ profileUrls \in [1..Slots -> SlotTexts]
    /\ mergedPositions = <<>>
    /\ loading = FALSE
    /\ loadingStatus = <<>>
    /\ batchError = JsNull
    /\ isLoadingRef = FALSE
    /\ promises = <<>>
    /\ autoRefresh = FALSE
    /\ timeUntilRefresh = 0
    /\ countdownOn = FALSE
    /\ inFlight = 0
    /\ completed = FALSE
    /\ startedBy = "none"
    /\ calls = 0

\* a fetchPositions without the check of isLoadingRef
fetchPositions_NoGuard(by, seconds) ==
    /\ calls' = 1 - calls
    /\ IF validUrls(profileUrls) = <<>>
       THEN /\ batchError' = "Please enter at least one profile URL"
            /\ timeUntilRefresh' = seconds
            /\ UNCHANGED <<mergedPositions, loading, loadingStatus,
                           isLoadingRef, promises, countdownOn, inFlight,
                           startedBy>>
       ELSE /\ isLoadingRef' = TRUE
            /\ loading' = TRUE
            /\ batchError' = JsNull
            /\ mergedPositions' = <<>>
            /\ loadingStatus' = [k \in DOMAIN urlsToProcess(profileUrls) |->
                                    LoadingStatus(TRUE, JsNull)]
            /\ promises' = [k \in DOMAIN urlsToProcess(profileUrls) |-> Pending]
            /\ countdownOn' = FALSE
            /\ timeUntilRefresh' = 0
            /\ inFlight' = inFlight + 1
            /\ startedBy' = by
    /\ UNCHANGED <<profileUrls, autoRefresh, completed>>

\* lines 158-190: fetchPositions up to its await: the call returns when a
\* batch is in progress or when no URL is entered, else it starts the
\* calls of fetchSingleProfile, each of which marks its index as loading
\* (line 76); setPositions([]) makes the effect of lines 239-252 clear the
\* countdown.  `seconds` is the countdown the caller leaves behind
fetchPositions(by, seconds) ==
    /\ calls' = 1 - calls
    /\ IF isLoadingRef
       THEN /\ timeUntilRefresh' = seconds
            /\ UNCHANGED <<mergedPositions, loading, loadingStatus, batchError,
                           isLoadingRef, promises, countdownOn, inFlight,
                           startedBy>>
       ELSE IF validUrls(profileUrls) = <<>>
       THEN /\ batchError' = "Please enter at least one profile URL"
            /\ timeUntilRefresh' = seconds
            /\ UNCHANGED <<mergedPositions, loading, loadingStatus,
                           isLoadingRef, promises, countdownOn, inFlight,
                           startedBy>>
       ELSE /\ isLoadingRef' = TRUE
            /\ loading' = TRUE
            /\ batchError' = JsNull
            /\ mergedPositions' = <<>>
            /\ loadingStatus' = [k \in DOMAIN urlsToProcess(profileUrls) |->
                                    LoadingStatus(TRUE, JsNull)]
            /\ promises' = [k \in DOMAIN urlsToProcess(profileUrls) |-> Pending]
            /\ countdownOn' = FALSE
            /\ timeUntilRefresh' = 0
            /\ inFlight' = inFlight + 1
            /\ startedBy' = by
    /\ UNCHANGED <<profileUrls, autoRefresh, completed>>

\* lines 505-509 and 532-542: Enter in an input, or the Scrape button
Click ==
    /\ fetchPositions("click", timeUntilRefresh)
    /\ UNCHANGED <<handlerVars, normVars, dedupVars, outcomeVars, pageVars,
                   eachVars, budgetElapsed>>

\* lines 78-155: a call of fetchSingleProfile receives its reply
Settle ==
    /\ \E k \in DOMAIN promises :
          /\ promises[k].state = "pending"
          /\ \E reply \in ReplyPool :
                /\ promises' = [promises EXCEPT
                       ![k] = Fulfilled(reply, fetchSingleProfile(reply).value)]
                /\ loadingStatus' = [loadingStatus EXCEPT
                       ![k] = fetchSingleProfile(reply).status]
    /\ UNCHANGED <<profileUrls, mergedPositions, loading, batchError,
                   isLoadingRef, autoRefresh, timeUntilRefresh, countdownOn,
                   inFlight, completed, startedBy, calls>>
    /\ UNCHANGED <<handlerVars, normVars, dedupVars, outcomeVars, pageVars,
                   eachVars, budgetElapsed>>

\* lines 191-235: Promise.allSettled resolves; no call rejects, so errors
\* stays empty and setError(null) runs; then the finally, and the effect of
\* lines 239-268 for the new positions
Finish ==
    /\ isLoadingRef
    /\ \A k \in DOMAIN promises : promises[k].state = "fulfilled"
    /\ mergedPositions' = uniquePositions(allPositions(promises))
    /\ batchError' = JsNull
    /\ isLoadingRef' = FALSE
    /\ loading' = FALSE
    /\ countdownOn' = Armed(autoRefresh, profileUrls, mergedPositions')
    /\ timeUntilRefresh' = (IF countdownOn' THEN RefreshSeconds ELSE 0)
    /\ inFlight' = inFlight - 1
    /\ completed' = TRUE
    /\ UNCHANGED <<profileUrls, loadingStatus, promises, autoRefresh,
                   startedBy, calls>>
    /\ UNCHANGED <<handlerVars, normVars, dedupVars, outcomeVars, pageVars,
                   eachVars, budgetElapsed>>

\* lines 566-575: the checkbox, shown while there are positions, and the
\* effect of lines 239-268
ToggleAutoRefresh ==
    /\ Len(mergedPositions) > 0
    /\ autoRefresh' = ~autoRefresh
    /\ countdownOn' = Armed(autoRefresh', profileUrls, mergedPositions)
    /\ timeUntilRefresh' = (IF countdownOn' THEN RefreshSeconds ELSE 0)
    /\ UNCHANGED <<profileUrls, mergedPositions, loading, loadingStatus,
                   batchError, isLoadingRef, promises, inFlight, completed,
                   startedBy, calls>>
    /\ UNCHANGED <<handlerVars, normVars, dedupVars, outcomeVars, pageVars,
                   eachVars, budgetElapsed>>

\* a countdown that starts over at its end without calling fetchPositions
Tick_OnlyCounts ==
    /\ countdownOn
    /\ timeUntilRefresh' = (IF timeUntilRefresh <= 1 THEN RefreshSeconds
                            ELSE timeUntilRefresh - 1)
    /\ UNCHANGED <<profileUrls, mergedPositions, loading, loadingStatus,
                   batchError, isLoadingRef, promises, autoRefresh,
                   countdownOn, inFlight, completed, startedBy, calls>>
    /\ UNCHANGED <<handlerVars, normVars, dedupVars, outcomeVars, pageVars,
                   eachVars, budgetElapsed>>

\* lines 259-268: the interval of the countdown fires
Tick ==
    /\ countdownOn
    /\ IF timeUntilRefresh <= 1
       THEN fetchPositions("countdown", RefreshSeconds)
       ELSE /\ timeUntilRefresh' = timeUntilRefresh - 1
            /\ UNCHANGED <<profileUrls, mergedPositions, loading,
                           loadingStatus, batchError, isLoadingRef, promises,
                           autoRefresh, countdownOn, inFlight, completed,
                           startedBy, calls>>
    /\ UNCHANGED <<handlerVars, normVars, dedupVars, outcomeVars, pageVars,
                   eachVars, budgetElapsed>>

NextClient == Click \/ Settle \/ Finish \/ ToggleAutoRefresh \/ Tick

\* the interval of the countdown fires every second while it runs; the
\* clicks are the user's and the replies the network's, so nothing is
\* assumed of them
SpecClient == InitClient /\ [][NextClient]_vars /\ WF_vars(Tick)

(***************************************************************************)
(* The claims.                                                             *)
(***************************************************************************)
Launched == browser # "none"
Responded == Len(responses) > 0
Status == responses[1].status

\* C1: whenever a browser was launched, it is closed before the handler
\* returns its response, on every exit path; no response is returned while
\* the launched browser is still open.
C1_BrowserClosedBeforeResponse ==
    /\ Responded => browser # "open"
    /\ (pc = "done" /\ Launched) => browser = "closed"

\* C1 witness: an exception during extraction, after scrolling, ended in a
\* response with the browser closed.
C1_Witness ==
    /\ pc = "done" /\ browser = "closed"
    /\ scrolled /\ ~extracted
    /\ Status = 500

NavTiers == <<"domcontentloaded", "networkidle", "">>

\* C2: navigation uses the three tiers in the fixed order document parsed,
\* network settled, no wait condition plus settle delay; a tier is attempted
\* only after the one before it failed, none after a success, at most three
\* attempts, and three failures end the invocation in a Failure result.
C2_ThreeTiersInOrder ==
    /\ Len(navLog) <= 3
    /\ \A i \in DOMAIN navLog :
          /\ navLog[i].waitUntil = NavTiers[i]
          /\ navLog[i].timeout <= 120000
          /\ i < Len(navLog) => ~navLog[i].ok
          /\ navLog[i].settle = IF i = 3 /\ navLog[i].ok THEN 5000 ELSE 0
    /\ (Len(navLog) = 3 /\ ~navLog[3].ok) =>
          /\ pc \in {"catch", "done"}
          /\ ~scrolled /\ ~extracted
          /\ pc = "done" => Status = 500
    /\ (pc \in {"check", "waitLinks", "scroll", "extract", "close", "respond"}) =>
          (Len(navLog) >= 1 /\ navLog[Len(navLog)].ok)

\* C2 witness: all three tiers were attempted, all failed, and the
\* invocation ended in a Failure result.
C2_Witness ==
    /\ pc = "done"
    /\ Len(navLog) = 3 /\ ~navLog[3].ok
    /\ Status = 500

\* the host of an absolute URL: what follows "scheme://", up to the first
\* "/", "?" or "#"
HostOf(url) ==
    LET from == FirstIn(url, 1, {":"}) + 1
        hostFrom == from + RunLen(url, from, {"/"})
    IN  ToLowerCase(SubSeq(url, hostFrom,
                           FirstIn(url, hostFrom, {"/", "?", "#"}) - 1))

EndsWith(s, p) == Len(p) <= Len(s) /\ OccursAt(s, p, Len(s) - Len(p) + 1)

\* the URL belongs to the expected site's domain
OnExpectedDomain(url) ==
    \/ HostOf(url) = PolymarketCom
    \/ EndsWith(HostOf(url), <<".">> \o PolymarketCom)

\* C3: after a successful navigation, a page URL that does not belong to
\* the expected site's domain ends the invocation in a Failure result
\* (status 500) with no further navigation, no scrolling and no extraction;
\* scrolling and extraction only ever run on a page of the expected domain.
C3_DomainMismatchIsFatal ==
    /\ (pageUrl # <<>> /\ ~OnExpectedDomain(pageUrl)) =>
          /\ pc \in {"catch", "done"}
          /\ ~scrolled /\ ~extracted
          /\ pc = "done" => Status = 500
    /\ (scrolled \/ extracted) => OnExpectedDomain(pageUrl)

\* C4: each request yields exactly one response; a missing profileUrl or
\* one that does not parse as a URL yields 400 and no browser is launched;
\* a failure after the launch yields 500; a run that completes with zero
\* records yields 200 with an empty positions array.
C4_StatusClassifiesOutcome ==
    /\ Len(responses) <= 1
    /\ (pc = "done") <=> Responded
    /\ pc # "done" => ENABLED Next
    /\ (Falsy(profileUrl) \/ ~ParsesAsURL(profileUrl.str)) =>
          /\ ~Launched
          /\ pc \in {"start", "done"}
          /\ pc = "done" => Status = 400
    /\ (pc = "done" /\ Launched /\ error # "") => Status = 500
    /\ (pc = "done" /\ extracted /\ error = "" /\ positions = <<>>) =>
          /\ Status = 200
          /\ responses[1].hasPositions
          /\ responses[1].positions = <<>>

\* C4 witness: a profileUrl that is present but does not parse was answered
\* with 400, no browser launched.
C4_Witness ==
    /\ pc = "done"
    /\ ~Falsy(profileUrl) /\ ~ParsesAsURL(profileUrl.str)
    /\ Status = 400 /\ ~Launched

IsEmptySuccess(r) ==
    r.status = 200 /\ r.error = "No positions found"
IsSuccess(r) ==
    r.status = 200 /\ r.error = "" /\ r.hasPositions /\ r.positions # <<>>

\* C5: the final result is EmptySuccess exactly when the deduplicated
\* record sequence is empty, and then (also for a page without any record,
\* as for a URL without the positions tab) the response has a non-empty
\* message, an empty positions array and count 0, nothing thrown; otherwise
\* it is Success and count is the number of records in positions.
C5_EmptySuccessIffNoRecords ==
    (pc = "done" /\ extracted /\ error = "") =>
        LET r == responses[1]
        IN  /\ IsEmptySuccess(r) <=> (positions = <<>>)
            /\ results = <<>> => IsEmptySuccess(r)
            /\ IsEmptySuccess(r) =>
                  /\ r.message # ""
                  /\ r.hasPositions /\ r.positions = <<>>
                  /\ r.count = 0
            /\ ~IsEmptySuccess(r) =>
                  /\ IsSuccess(r)
                  /\ r.positions = positions
                  /\ r.count = Len(r.positions)

\* C5 witness: a URL without the positions tab, no record found, answered
\* with the empty result.
C5_Witness ==
    /\ pc = "done" /\ extracted /\ error = ""
    /\ profileUrl = Param(ProfileNoTab)
    /\ results = <<>>
    /\ IsEmptySuccess(responses[1])

DedupKey(r) == normalizedUrl(r.marketUrl)

\* the first record of res with the key k
FirstWithKey(res, k) ==
    res[CHOOSE i \in DOMAIN res :
            /\ DedupKey(res[i]) = k
            /\ \A j \in 1..(i - 1) : DedupKey(res[j]) # k]

\* out is a subsequence of res
IsSubsequence(out, res) ==
    \E f \in [DOMAIN out -> DOMAIN res] :
        /\ \A i \in DOMAIN out : res[f[i]] = out[i]
        /\ \A i, j \in DOMAIN out : i < j => f[i] < f[j]

\* C6: the deduplicated output has no two records with the same DedupKey,
\* has exactly one record for every key of the input, that record being the
\* first of the input with that key, and is a subsequence of the input.
C6_FirstSeenWins ==
    dedupPc \in {"once", "twice"} =>
        /\ \A i, j \in DOMAIN once :
              i # j => DedupKey(once[i]) # DedupKey(once[j])
        /\ \A i \in DOMAIN dedupIn :
              Cardinality({j \in DOMAIN once :
                              DedupKey(once[j]) = DedupKey(dedupIn[i])}) = 1
        /\ \A j \in DOMAIN once :
              once[j] = FirstWithKey(dedupIn, DedupKey(once[j]))
        /\ IsSubsequence(once, dedupIn)

\* C6 witness: two records whose URLs differ only by the query string gave
\* one record, the first.
C6_Witness ==
    /\ dedupPc = "once"
    /\ Len(dedupIn) = 2
    /\ dedupIn[2].marketUrl = dedupIn[1].marketUrl \o QuerySuffix
    /\ once = <<dedupIn[1]>>

\* C7: for a base URL u that does not end in a slash,
\* normalize(u + "?q=1") = normalize(u) = normalize(u + "/").
C7_NormalizeIgnoresQueryAndSlash ==
    (normPc = "out" /\ (u = <<>> \/ u[Len(u)] # "/")) =>
        /\ normQuery = normU
        /\ normU = normSlash

\* C7 witness: a base URL with an upper-case letter and a fragment, not
\* ending in a slash, was normalised to something shorter.
C7_Witness ==
    /\ normPc = "out"
    /\ Len(u) = MaxUrlLen /\ u[Len(u)] # "/"
    /\ "B" \in Range(u) /\ "#" \in Range(u)
    /\ Len(normU) < Len(u) /\ Len(normU) > 0
    /\ normQuery = normU /\ normSlash = normU

\* C8: applying the deduplication to its own output gives the same records
\* in the same order.
C8_DedupIdempotent ==
    dedupPc = "twice" => twice = once

\* C8 witness: an input with duplicates was deduplicated twice.
C8_Witness ==
    /\ dedupPc = "twice"
    /\ Len(once) < Len(dedupIn) /\ Len(once) >= 2
    /\ twice = once

\* str is a number written with exactly two decimals
IsTwoDecimal(str) ==
    /\ Len(str) >= 4
    /\ str[Len(str) - 2] = "."
    /\ \A i \in DOMAIN str : i # Len(str) - 2 => str[i] \in Digits

\* the hundredths a two-decimal string stands for
HundredthsOf(str) ==
    ToNat(SubSeq(str, 1, Len(str) - 3) \o SubSeq(str, Len(str) - 1, Len(str)))

\* the number of cents the priced quantity parses to
CentsOf(avg) ==
    LET m == NumberMatch(avg, Digits)
    IN  IF m.found THEN parseFloat(m.text) ELSE NaN

\* the number the monetary value parses to, "$" and "," stripped
AmountOf(val) ==
    LET m == NumberMatch(val, Digits \cup {","})
    IN  IF m.found THEN parseFloat(RemoveCommas(m.text)) ELSE NaN

IsFinite(x) == x.kind \in {"fin", "pow10"}

\* C9: whenever the priced quantity parses to p > 0 cents and the monetary
\* value parses to a number v, outcome is v / (p / 100) written with exactly
\* two decimals; "50c" with "$100" gives "200.00", "45c" with "$900" gives
\* "2000.00".
C9_OutcomeIsQuotient ==
    calcPc = "out" =>
        LET p == CentsOf(avgPriceValue)
            v == AmountOf(value)
        IN  /\ (/\ avgPriceValue # <<>> /\ value # <<>>
                /\ IsFinite(p) /\ IsPositive(p) /\ IsFinite(v)) =>
                  /\ IsTwoDecimal(outcome)
                  /\ (p.kind = "fin" /\ v.kind = "fin") =>
                        LET h == HundredthsOf(outcome)
                            \* v / (p / 100) in hundredths is num / den
                            num == v.n * Pow10(4 + p.s)
                            den == p.n * Pow10(v.s)
                            d == h * den - num
                        IN  2 * (IF d < 0 THEN 0 - d ELSE d) <= den
            /\ (avgPriceValue = <<"5","0",Cent>> /\ value = <<"$","1","0","0">>)
                  => outcome = <<"2","0","0",".","0","0">>
            /\ (avgPriceValue = <<"4","5",Cent>> /\ value = <<"$","9","0","0">>)
                  => outcome = <<"2","0","0","0",".","0","0">>

\* C10: outcome is either empty or a number with exactly two decimals; it
\* is empty whenever the priced quantity is empty, is zero or has no number
\* in it, or the monetary value is empty or has no number in it; it is
\* never NaN or Infinity.  (The calculation has a result for every input:
\* it never throws.)
C10_OutcomeEmptyOrTwoDecimals ==
    calcPc = "out" =>
        /\ outcome = <<>> \/ IsTwoDecimal(outcome)
        /\ outcome \notin {<<"N","a","N">>, <<"I","n","f","i","n","i","t","y">>}
        /\ (\/ avgPriceValue = <<>>
            \/ value = <<>>
            \/ ~IsPositive(CentsOf(avgPriceValue))
            \/ AmountOf(value).kind = "nan") => outcome = <<>>


\* the URL is absolute: it starts with a scheme
IsAbsoluteUrl(url) == SchemeOf(url) # <<>>

\* s is a root-relative or a bare reference: non-empty, without a scheme
IsRelativeRef(s) == s # <<>> /\ SchemeOf(s) = <<>>

OwnsOnlyTheLink(k) == ancestors[k].links = 1

\* C12: every container resolved for an anchor contains exactly one
\* record-indicating anchor, that anchor; no resolved container contains two
\* or more matching anchors, whichever strategy produced it.
C12_ContainerOwnsOneAnchor ==
    (locPc = "out" /\ container # 0) => OwnsOnlyTheLink(container)

\* the nearest enclosing table row (0 without one)
NearestRow ==
    IF \E k \in DOMAIN ancestors : ancestors[k].tag = "TR"
    THEN CHOOSE k \in DOMAIN ancestors :
            /\ ancestors[k].tag = "TR"
            /\ \A j \in 1..(k - 1) : ancestors[j].tag # "TR"
    ELSE 0

RowSucceeds == NearestRow # 0 /\ OwnsOnlyTheLink(NearestRow)

\* the second strategy succeeds: the div it looks at (the nearest with a
\* position class, else the nearest with a row class, else the nearest with
\* the row role) holds only the anchor
HasMarker(k, m) ==
    /\ ancestors[k].tag = "DIV"
    /\ CASE m = 1 -> Includes(ancestors[k].className, <<"p","o","s","i","t","i","o","n">>)
         [] m = 2 -> Includes(ancestors[k].className, <<"r","o","w">>)
         [] m = 3 -> ancestors[k].role = <<"r","o","w">>

MarkerSucceeds ==
    \E m \in 1..3, k \in DOMAIN ancestors :
        /\ HasMarker(k, m)
        /\ \A j \in 1..(k - 1) : ~HasMarker(j, m)
        /\ \A n \in 1..(m - 1), j \in DOMAIN ancestors : ~HasMarker(j, n)
        /\ OwnsOnlyTheLink(k)

\* the ancestors the walk accepts: within 5 levels, only the anchor in
\* them, more than two child elements
WalkAccepts ==
    {k \in DOMAIN ancestors :
        k <= 5 /\ OwnsOnlyTheLink(k) /\ ancestors[k].children > 2}

\* C13: the strategies are tried in the order table row, marked ancestor,
\* bounded walk, fallback, and the container is that of the first that
\* succeeds: the nearest enclosing table row whenever it exists and holds
\* exactly one matching anchor; the fallback (grandparent, or parent without
\* a grandparent) only when the first three fail; an anchor with a parent
\* element always gets a container.
C13_FirstStrategyWins ==
    locPc = "out" =>
        /\ strategy = (IF RowSucceeds THEN 1
                       ELSE IF MarkerSucceeds THEN 2
                       ELSE IF WalkAccepts # {} THEN 3
                       ELSE 4)
        /\ RowSucceeds => container = NearestRow
        /\ strategy = 2 =>
              \E m \in 1..3 : HasMarker(container, m) /\ OwnsOnlyTheLink(container)
        /\ strategy = 3 => container \in WalkAccepts
        /\ strategy = 4 =>
              container = (IF Len(ancestors) >= 2 THEN 2 ELSE 1)
        /\ Len(ancestors) >= 1 => container \in DOMAIN ancestors

\* C13 witness: a table row that holds two anchors and a marked div above
\* the anchor that holds two as well, no ancestor for the walk: the
\* fallback gave the grandparent.
C13_Witness ==
    /\ locPc = "out"
    /\ NearestRow # 0 /\ ~RowSucceeds
    /\ \E k \in DOMAIN ancestors : HasMarker(k, 1)
    /\ strategy = 4
    /\ container = 2

\* the nearest ancestor that carries any of the markers (0 without one)
NearestMarked ==
    LET marked == {k \in DOMAIN ancestors : \E m \in 1..3 : HasMarker(k, m)}
    IN  IF marked = {} THEN 0
        ELSE CHOOSE k \in marked : \A j \in marked : k <= j

\* C14: when the table-row strategy fails, the second strategy looks at the
\* nearest ancestor that carries any of the markers and accepts it if and
\* only if it holds exactly one matching anchor; a marked ancestor farther
\* from the anchor is never looked at in preference to a nearer one.
C14_NearestMarkedAncestor ==
    (locPc = "out" /\ ~RowSucceeds) =>
        /\ (strategy = 2) <=>
              (NearestMarked # 0 /\ OwnsOnlyTheLink(NearestMarked))
        /\ strategy = 2 => container = NearestMarked

\* C15: the walk looks at no more than 5 ancestors, from the parent upward,
\* and gives the lowest of them that holds exactly one matching anchor and
\* has more than two child elements; it never gives an ancestor more than 5
\* levels up or one that fails a condition, and it ends for every tree.
C15_BoundedWalk ==
    /\ locPc = "in" => ENABLED Locate
    /\ (locPc = "out" /\ ~RowSucceeds /\ ~MarkerSucceeds) =>
          /\ depth <= 5
          /\ (strategy = 3) <=> (WalkAccepts # {})
          /\ strategy = 3 =>
                /\ container \in WalkAccepts
                /\ \A k \in WalkAccepts : container <= k
                /\ depth = container - 1
          /\ strategy # 3 =>
                depth = (IF Len(ancestors) < 5 THEN Len(ancestors) ELSE 5)

\* C15 witness: the sixth ancestor is the first that holds only the anchor
\* and has more than two child elements; the walk stopped after five and
\* the fallback was used.
C15_Witness ==
    /\ locPc = "out"
    /\ Len(ancestors) >= 6
    /\ OwnsOnlyTheLink(6) /\ ancestors[6].children > 2
    /\ WalkAccepts = {}
    /\ depth = 5
    /\ strategy = 4


\* the anchors whose URL matches the pattern of a market's page
RecordAnchors ==
    {i \in DOMAIN anchors :
        /\ Includes(anchors[i].hrefAttr, EventPath)
        /\ Includes(Href(anchors[i]), EventPath)}

\* those of them that carry both class-name fragments
StyleMarked ==
    {i \in RecordAnchors :
        /\ Includes(anchors[i].className, <<"f","l","e","x","-","1">>)
        /\ Includes(anchors[i].className,
                    <<"c","u","r","s","o","r","-","p","o","i","n","t","e","r">>)}

\* C16: the anchors processed are the style-marked ones if and only if there
\* are at least 5 of them; with 4 or fewer every anchor that matches the URL
\* pattern is processed; in both cases in document order.
C16_StyledSubsetFromFive ==
    selPc = "out" =>
        /\ Cardinality(StyleMarked) >= 5 => Range(marketLinks) = StyleMarked
        /\ Cardinality(StyleMarked) <= 4 => Range(marketLinks) = RecordAnchors
        /\ \A i, j \in DOMAIN marketLinks :
              i < j => marketLinks[i] < marketLinks[j]

\* C16 witness: exactly five style-marked anchors and an unmarked one before
\* the last of them; the five were selected, the unmarked one was not.
C16_Witness ==
    /\ selPc = "out"
    /\ Cardinality(StyleMarked) = 5
    /\ \E i \in RecordAnchors \ StyleMarked : \E j \in StyleMarked : i < j
    /\ Len(marketLinks) = 5
    /\ Range(marketLinks) = StyleMarked


\* the first of the strings that is not empty (empty when all are)
FirstNonEmpty(ss) ==
    LET found == {i \in DOMAIN ss : ss[i] # <<>>}
    IN  IF found = {} THEN <<>> ELSE ss[Least(found)]

Extracted == fieldPc = "out" /\ trace # <<>>

\* what each strategy for the priced quantity finds by itself
PriceByCell == AvgPriceFromCells(fieldContainer)
PriceByElement == AvgPriceFromElements(fieldContainer, <<>>)
PriceByText == AvgPriceFromText(fieldContainer, <<>>)
PriceByCapture == AvgPriceFromCapture(fieldContainer, <<>>)

\* C17: the strategies for the priced quantity are tried in the order (a)
\* keyword table cell, (b) descendant element with average context, (c)
\* average-labelled pattern over the container text, (d) earlier capture;
\* the first that succeeds determines the field, no later one changes it,
\* and the field is empty if all fail.
C17_FirstPriceStrategyWins ==
    Extracted =>
        /\ trace.priceD = FirstNonEmpty(<<PriceByCell, PriceByElement,
                                          PriceByText, PriceByCapture>>)
        /\ trace.priceA # <<>> => trace.priceD = trace.priceA

PriceFails ==
    PriceByCell = <<>> /\ PriceByElement = <<>> /\ PriceByText = <<>>

\* C18 as stated: when strategies (a)-(c) all fail and the container text
\* holds a cents token without an average/price label, the priced quantity
\* is that token, not empty.
C18_UnlabelledTokenReused ==
    (Extracted /\ PriceFails /\ CentMatch(ContainerText(fieldContainer)).found) =>
        trace.priceD = CentMatch(ContainerText(fieldContainer)).num \o <<Cent>>

\* C18, amended: when strategies (a)-(c) all fail the priced quantity is
\* empty, also when the container text holds a cents token: the capture
\* that strategy (d) reuses is made with the labelled patterns of (c).
C18_CaptureAddsNothing ==
    (Extracted /\ PriceFails) =>
        /\ trace.avgPrice = <<>>
        /\ trace.priceD = <<>>
        /\ \A i \in DOMAIN pushed : pushed[i].avgPrice = <<>>

\* C18 witness: the text holds a cents token, no strategy found a priced
\* quantity and the record was pushed without one.
C18_Witness ==
    /\ Extracted /\ PriceFails
    /\ CentMatch(ContainerText(fieldContainer)).found
    /\ Len(pushed) = 1
    /\ pushed[1].avgPrice = <<>>

\* the cells of the row that hold a dollar amount, and those of them whose
\* text mentions value, PnL, profit or loss
DollarCells ==
    {i \in DOMAIN Cells(fieldContainer) :
        DollarMatch(Cells(fieldContainer)[i].text).found}

MentionCells ==
    {i \in DollarCells :
        \E w \in {<<"v","a","l","u","e">>, <<"p","n","l">>,
                  <<"p","r","o","f","i","t">>, <<"l","o","s","s">>} :
            Includes(ToLowerCase(Cells(fieldContainer)[i].text), w)}

CellValue ==
    DollarMatch(Cells(fieldContainer)[
        IF MentionCells # {} THEN Least(MentionCells)
        ELSE Least(DollarCells)].text).text

\* C19: for a table row in which a cell holds a dollar amount, the value is
\* the first dollar amount of the first cell that mentions value, PnL,
\* profit or loss, or, when no cell with a dollar amount mentions one, the
\* first dollar amount in any cell; the later strategies never change it.
C19_CellValueKept ==
    (Extracted /\ fieldContainer.tag = "TR" /\ DollarCells # {}) =>
        /\ trace.valueA = CellValue
        /\ trace.valueB = trace.valueA
        /\ trace.valueC = trace.valueA
        /\ \A i \in DOMAIN pushed : pushed[i].value = CellValue


\* the loop has been left
LoopLeft == scrollPc \in {"bottom", "top"}

ScrollLoopBounded ==
    /\ scrollCount \in 0..maxScrolls
    /\ stableCount \in 0..3
    /\ stableCount <= scrollCount
    /\ LoopLeft => (stableCount = 3 \/ scrollCount = maxScrolls)
    /\ scrollPc = "loop" =>
          IF stableCount = 3 \/ scrollCount = maxScrolls
          THEN ~ENABLED ScrollStep /\ ENABLED ScrollToBottom
          ELSE ENABLED ScrollStep /\ ~ENABLED ScrollToBottom

\* C20: the scroll loop always ends: it takes at most 50 scroll steps and it
\* stops at the first iteration after which the stability counter is 3 or
\* the iteration count is 50; it never stops while the counter is below 3
\* and iterations remain.
C20_ScrollLoopStops == []ScrollLoopBounded /\ <>LoopLeft

\* C20 witness: the page kept changing, the budget of 50 steps ran out with
\* the stability counter at 2 and the loop was left.
C20_Witness ==
    /\ LoopLeft
    /\ scrollCount = maxScrolls
    /\ stableCount = 2


\* C21: after every sample the stability counter is the number of most
\* recent consecutive samples whose height and anchor count both equal
\* those of the sample taken just before; a change of either signal resets
\* it, the first sample is not counted as stable, and the loop is left as
\* stable only after four consecutive identical samples (a run of three
\* samples equal to their predecessor).
C21_CounterCountsStableSamples ==
    /\ stableCount = stableRun
    /\ (samples # <<>> /\ scrollCount = 1) => stableCount = 0
    /\ (LoopLeft /\ stableCount = 3) => stableRun = 3


\* C22: the scroll step cannot fail an invocation: once the scroll script
\* is due (navigation succeeded, the domain check passed), the handler's
\* next step takes it to the extraction, never to the catch block, whatever
\* the page does while it is scrolled.
C22_ScrollNeverFails == [][pc = "scroll" => pc' = "extract"]_vars


\* the anchors among the first n of the pass that yield a record: a
\* container and a URL were found and no exception left the body
Yields(a) ==
    /\ a.found
    /\ a.url # <<>>
    /\ a.raises \notin {"container", "avgPrice", "value"}

\* the indices of the yielding anchors among the first n, in order
YieldingUpTo(n) ==
    LET F[i \in 0..n] ==
            IF i = 0 THEN <<>>
            ELSE IF Yields(eachLinks[i]) THEN Append(F[i - 1], i) ELSE F[i - 1]
    IN  F[n]

\* C23: an exception raised while the container of an anchor is resolved or
\* while it is extracted from removes that anchor's record only: every
\* other anchor is processed, the records of the others are in the results
\* in their original order, and the script returns instead of failing.
C23_OnlyTheFailingAnchorIsSkipped ==
    /\ Len(eachResults) = Len(YieldingUpTo(eachIndex))
    /\ \A k \in DOMAIN eachResults :
          /\ eachResults[k].marketUrl = eachLinks[YieldingUpTo(eachIndex)[k]].url
          /\ eachResults[k].marketName = eachLinks[YieldingUpTo(eachIndex)[k]].name
    /\ eachPc = "returned" =>
          /\ eachIndex = Len(eachLinks)
          /\ eachReturned = uniqueResults(eachResults)

\* C23 witness: the pass returned; the first anchor raised an exception and
\* a later anchor gave a record.
C23_Witness ==
    /\ eachPc = "returned"
    /\ 1 \in eachErrors
    /\ Len(eachReturned) > 0

\* C24: an error raised while one field of a candidate is extracted leaves
\* that field empty only: the candidate is emitted with its marketUrl, its
\* marketName and the fields extracted without an error.
C24_FieldErrorEmptiesOnlyTheField ==
    \A i \in 1..eachIndex :
        (/\ eachLinks[i].found
         /\ eachLinks[i].url # <<>>
         /\ eachLinks[i].raises \in {"avgPrice", "value", "outcome"})
        => \E k \in DOMAIN eachResults :
              /\ eachResults[k].marketUrl = eachLinks[i].url
              /\ eachResults[k].marketName = eachLinks[i].name
              /\ eachResults[k].avgPrice =
                    (IF eachLinks[i].raises = "avgPrice" THEN <<>>
                     ELSE eachLinks[i].avg)
              /\ eachResults[k].value =
                    (IF eachLinks[i].raises = "value" THEN <<>>
                     ELSE eachLinks[i].val)
              /\ eachLinks[i].raises = "outcome" => eachResults[k].outcome = <<>>


\* the handler is navigating, scrolling or extracting
AtWork == pc \in {"nav1", "nav2", "nav3", "check", "waitLinks", "scroll",
                  "extract"}

\* C25: an invocation is bounded by its overall budget: when the budget has
\* elapsed while the handler is navigating, scrolling or extracting, its
\* next step abandons that work (to close the browser and to respond), so
\* that no invocation goes on working, its browser open, after the budget.
C25_BudgetAbortsTheInvocation ==
    [][(budgetElapsed /\ AtWork) => (~AtWork' /\ ~extracted')]_vars


\* a batch has finished and none is running
BatchDone == completed /\ ~isLoadingRef

\* the positions the calls of the batch that succeeded received, in the
\* order of the URL list
Received ==
    Flatten([k \in DOMAIN promises |->
                IF promises[k].kind = "ok" THEN promises[k].data ELSE <<>>])

\* C26: a batch runs at most 3 URLs at a time; a URL that fails neither
\* cancels nor discards the others: the merged positions are the positions
\* of every URL that succeeded, taken in the order of the URL list and
\* deduplicated by DedupKey, the first record of a key winning, whatever
\* the order in which the requests end.
C26_BatchMergesEverySucceededUrl ==
    /\ Len(promises) <= 3
    /\ BatchDone =>
          /\ IsSubsequence(mergedPositions, Received)
          /\ \A i \in DOMAIN Received : \E j \in DOMAIN mergedPositions :
                DedupKey(mergedPositions[j]) = DedupKey(Received[i])
          /\ \A j \in DOMAIN mergedPositions :
                mergedPositions[j] =
                    FirstWithKey(Received, DedupKey(mergedPositions[j]))
          /\ \A i, j \in DOMAIN mergedPositions :
                i # j => DedupKey(mergedPositions[i]) # DedupKey(mergedPositions[j])

\* C26 witness: a batch of three URLs ended; the first failed, the other
\* two succeeded with positions of the same market between them.
C26_Witness ==
    /\ BatchDone
    /\ Len(promises) = 3
    /\ promises[1].kind = "http"
    /\ promises[2].kind = "ok" /\ promises[3].kind = "ok"
    /\ promises[2].data # promises[3].data
    /\ Len(mergedPositions) < Len(Received)
    /\ Len(mergedPositions) > 1


\* C27: every URL of a batch that fails, by an error response, by a network
\* error or by the 5-minute timeout of the client, ends the batch with a
\* diagnostic of its own that is not empty.
C27_FailingUrlHasDiagnostic ==
    BatchDone =>
        \A k \in DOMAIN promises :
            promises[k].kind \in {"http", "network", "timeout"}
            => loadingStatus[k].error \notin {JsNull, ""}


\* a URL is entered in some slot
hasValidUrls == \E s \in DOMAIN profileUrls : IsEntered(profileUrls[s])

\* C28 as stated: while auto-refresh is enabled and a URL is entered, after
\* every completed batch a new batch is eventually started by the
\* countdown, whatever the batch returned.
C28_RefreshAfterEveryBatch ==
    (BatchDone /\ autoRefresh /\ hasValidUrls) ~> (isLoadingRef \/ ~autoRefresh)

\* C28, amended: while auto-refresh is enabled and a URL is entered, after
\* every completed batch that left at least one position a new batch is
\* eventually started (by the countdown, unless a click starts it before).
C28_RefreshAfterBatchWithPositions ==
    (BatchDone /\ autoRefresh /\ hasValidUrls /\ Len(mergedPositions) > 0)
        ~> (isLoadingRef \/ ~autoRefresh)

\* C28 witness: auto-refresh is on and the countdown has started a batch
\* after a batch that had finished.
C28_Witness ==
    /\ completed
    /\ autoRefresh
    /\ isLoadingRef
    /\ startedBy = "countdown"


\* C29: at most one batch is in flight; a call of fetchPositions that
\* arrives while a batch runs starts no request and changes no state; and
\* the in-progress flag is cleared on every path on which a batch ends.
C29_OneBatchInFlight ==
    /\ [](/\ inFlight <= 1
          /\ isLoadingRef <=> inFlight = 1
          /\ loading <=> isLoadingRef)
    /\ [][(calls' # calls /\ isLoadingRef) => UNCHANGED clientState]_vars

\* C29 witness: fetchPositions was called while a batch was running, one of
\* whose requests had ended.
C29_Witness ==
    /\ isLoadingRef
    /\ ~completed
    /\ calls = 0
    /\ startedBy = "click"
    /\ \E k \in DOMAIN promises : promises[k].state = "fulfilled"
    /\ \E k \in DOMAIN promises : promises[k].state = "pending"


\* lines 514 and 521: what the page shows at input slot s, the slots
\* counted from 1: loadingStatus[index] of the slot, if there is one
ShownAt(s) ==
    IF s \in DOMAIN loadingStatus THEN loadingStatus[s]
    ELSE LoadingStatus(FALSE, JsNull)

\* the index among the calls of the batch of the URL held by slot s
CallOfSlot(s) ==
    Cardinality({t \in 1..s : IsEntered(profileUrls[t])})

\* C30: the loading state and the diagnostic of a URL are shown at the
\* input slot that holds the URL, for every assignment of URLs to the three
\* slots, an earlier slot left blank and a later one filled included: a
\* blank slot shows nothing, and a filled slot shows the state of its own
\* request.
C30_StatusShownAtTheUrlsSlot ==
    (isLoadingRef \/ completed) =>
        \A s \in DOMAIN profileUrls :
            IF IsEntered(profileUrls[s])
            THEN /\ ShownAt(s).loading = (promises[CallOfSlot(s)].state = "pending")
                 /\ promises[CallOfSlot(s)].kind = "ok" =>
                       ShownAt(s).error = JsNull
                 /\ promises[CallOfSlot(s)].kind \in {"http", "network", "empty"} =>
                       ShownAt(s).error # JsNull
            ELSE ShownAt(s) = LoadingStatus(FALSE, JsNull)

=============================================================================
